---- MODULE Spec2Model ----
(***************************************************************************)
(* Grid state machine of the MT5 grid bot (multi-grid variant,              *)
(* src/unnamed/part_000): registry of baskets (grid_states), the venue's    *)
(* positions and pending orders, and the handlers run() calls each tick.    *)
(*                                                                         *)
(* Units.  Prices are whole numbers of pips of a 3-digit instrument, so     *)
(* pip_val() = 1 pip = 10 points and round(x, digits) is applied to whole   *)
(* numbers of pips only.  Volumes are whole numbers of 0.01 lot (volume_step), and   *)
(* adjust_lot takes its argument in halves of that unit so that the         *)
(* division by 2 of the counter-hedge is exact before it is rounded.        *)
(* The stop-loss of a position is not modelled: no handler reads it except  *)
(* to pass it back to the venue unchanged.                                  *)
(*                                                                         *)
(* The configuration is read from the environment (os.getenv); the values   *)
(* below are one admissible configuration, scaled down so that every        *)
(* threshold is crossed within the explored runs.                           *)
(***************************************************************************)
EXTENDS Integers, Sequences, FiniteSets, TLC

\* ------------------------------------------------------------------ config
LOT_SMALL == 1
LOT_MAX == 2000
GRID_LOT_SEQUENCE == <<1, 1, 2>>
GRID_STEP_PIPS == 2
DYNAMIC_STEP_PIPS == 3
PROFIT_PIPS == 5
DYNAMIC_PROFIT_PIPS == 6
DYNAMIC_POSITIONS_TRIGGER == 2
MAX_POSITIONS == 6
PROFIT_TARGET_AMT == 1
MAX_LOSS_AMT == 1
MAX_PENDING_GRID_ORDERS_PER_SIDE == 2
MAX_ACTIVE_GRIDS == 2
ENABLE_TRADING_HOURS == TRUE
base_magic_number == 12345
volume_min == 1
pip_val == 1

\* ------------------------------------------------------------------ bounds
\* The venue acts freely at most this many times: a fill, a closure, a move of
\* price or equity, a rejected request, a restart of the process.
MaxVenueEvents == 2
\* The ask prices the venue may quote; a BUY fills at the ask, a SELL at the bid.
Prices == {100, 101}
Spread == 1
\* Account equity the venue may report, and the baseline at login.
Equities == {10, 11}

None == 0 - 1
Sides == {"BUY", "SELL"}

Min(a, b) == IF a < b THEN a ELSE b
Max(a, b) == IF a > b THEN a ELSE b

\* ------------------------------------------------------------------ state
VARIABLES
    positions,          \* venue: open positions, in opening order (time, ticket)
    orders,             \* venue: pending limit orders, in placement order
    grid_states,        \* bot: magic -> GridState
    next_magic_number,  \* bot
    initial_equity,     \* bot: baseline equity of the current cycle
    pc,                 \* bot: position in run()
    todo,               \* bot: the rest of list(grid_states.keys()) being iterated
    ev,                 \* the venue requests the last step made and their outcome
    venue_events,       \* how often the venue has acted freely so far: fills, closures,
                        \* moves of price or equity, rejected requests, restarts
    ask,                \* venue: the current ask price
    in_session,         \* the clock: the time is inside the trading window
    plan,               \* venue: the script it still has to follow
    single              \* bot, single-grid variant (src/mt5bot.py): its module globals

vars == <<positions, orders, grid_states, next_magic_number, initial_equity, pc, todo, ev,
          venue_events, ask, in_session, plan, single>>

\* ------------------------------------------------------------------ comments
\* format_mt5_comment: "Grid<name>_<alphanumeric action>"; every comment the bot
\* writes is shorter than 31 characters, so a comment is the pair (name, action).
\* Names are letters: 0 is "A", 1 is "B", ...
ACTION_INITIAL_HEDGE_BUY == "initialhedgebuy"
ACTION_INITIAL_HEDGE_SELL == "initialhedgesell"
ACTION_RE_HEDGE_BUY == "rehedgebuy"
ACTION_RE_HEDGE_SELL == "rehedgesell"
ACTION_GRID_LIMIT_BUY == "gridbuy"
ACTION_GRID_LIMIT_SELL == "gridsell"
ACTION_CAPPED_BUY_TAG == "CappedBuy"
ACTION_CAPPED_SELL_TAG == "CappedSell"
ACTION_DYNAMIC_HEDGE_BUY_TAG == "DynamicHedgeBuy"
ACTION_DYNAMIC_HEDGE_SELL_TAG == "DynamicHedgeSell"
ACTION_SYNC_TP == "synctp"

\* SEARCH_KEYWORD_DYNAMIC_HEDGE_GENERIC in p.comment
HasDynamicHedge(p) == p.action \in {ACTION_DYNAMIC_HEDGE_BUY_TAG, ACTION_DYNAMIC_HEDGE_SELL_TAG}
\* SEARCH_KEYWORD_CAPPED_GENERIC in p.comment
HasCapped(p) == p.action \in {ACTION_CAPPED_BUY_TAG, ACTION_CAPPED_SELL_TAG}
\* SEARCH_KEYWORD_GRIDBUY_SANE / GRIDSELL_SANE / MARKET_FALLBACK_SUBSTRING in p.comment
HasGridTag(p, side) ==
    p.action = (IF side = "BUY" THEN ACTION_GRID_LIMIT_BUY ELSE ACTION_GRID_LIMIT_SELL)
HasCappedSpecific(p, side) ==
    p.action = (IF side = "BUY" THEN ACTION_CAPPED_BUY_TAG ELSE ACTION_CAPPED_SELL_TAG)

Opposite(side) == IF side = "BUY" THEN "SELL" ELSE "BUY"

\* ------------------------------------------------------------------ sequences
RECURSIVE Keep(_, _, _)
\* The subsequence of s at the indices of idx, from index i on.
Keep(s, idx, i) ==
    IF i > Len(s) THEN <<>>
    ELSE (IF i \in idx THEN <<s[i]>> ELSE <<>>) \o Keep(s, idx, i + 1)

\* The venue's books are kept grouped by basket, then non-hedge BUY, non-hedge
\* SELL, hedges, in opening order within a group: no handler depends on the
\* order of two entries of different groups, and an entry added to the books
\* never moves the non-hedge entries of its basket that were read before it.
Rank(e) ==
    IF e.action \in {"DynamicHedgeBuy", "DynamicHedgeSell"} THEN 2
    ELSE IF e.type = "BUY" THEN 0 ELSE 1
Before(a, b) == a.magic < b.magic \/ (a.magic = b.magic /\ Rank(a) < Rank(b))
Insert(s, e) ==
    LET n == Cardinality({i \in 1..Len(s) : ~Before(e, s[i])})
    IN SubSeq(s, 1, n) \o <<e>> \o SubSeq(s, n + 1, Len(s))
RECURSIVE InsertAll(_, _)
InsertAll(s, es) == IF es = <<>> THEN s ELSE InsertAll(Insert(s, Head(es)), Tail(es))

Idx(s, Test(_)) == {i \in 1..Len(s) : Test(s[i])}

RECURSIVE SumVolume(_, _)
SumVolume(s, i) == IF i > Len(s) THEN 0 ELSE s[i].volume + SumVolume(s, i + 1)

RECURSIVE SortedSeq(_)
\* sorted(list(set)): the ascending sequence of a set of numbers.
SortedSeq(S) ==
    IF S = {} THEN <<>>
    ELSE LET m == CHOOSE x \in S : \A y \in S : x <= y
         IN <<m>> \o SortedSeq(S \ {m})

\* ------------------------------------------------------------------ lots, prices
\* adjust_lot: round(lot / volume_step) * volume_step (Python rounds halves to
\* even), then clamped to [volume_min, min(volume_max, LOT_MAX)].  h is the lot
\* in halves of volume_step.
adjust_lot(h) ==
    LET q == h \div 2
        rounded == IF h % 2 = 0 THEN q ELSE IF q % 2 = 0 THEN q ELSE q + 1
    IN Min(LOT_MAX, Max(volume_min, rounded))

tp_price(direction, entry_price, pips_to_use) ==
    IF direction = "BUY" THEN entry_price + pips_to_use * pip_val
    ELSE entry_price - pips_to_use * pip_val

OfMagic(s, magic) == Idx(s, LAMBDA p : p.magic = magic)
OfSide(s, magic, side) == Idx(s, LAMBDA p : p.magic = magic /\ p.type = side)
NonHedgeOfSide(s, magic, side) ==
    Idx(s, LAMBDA p : p.magic = magic /\ p.type = side /\ ~HasDynamicHedge(p))

\* The take-profit send_market_order and place_limit_order compute when none is given.
default_tp(pos, direction, price, magic) ==
    LET is_near_dynamic_trigger == Cardinality(OfMagic(pos, magic)) + 1 >= DYNAMIC_POSITIONS_TRIGGER
    IN tp_price(direction, price,
                IF is_near_dynamic_trigger THEN DYNAMIC_PROFIT_PIPS ELSE PROFIT_PIPS)

\* The position a filled market order opens.
MarketPosition(direction, h, magic, name, action, price, tp) ==
    [magic |-> magic, type |-> direction, name |-> name, action |-> action,
     price_open |-> price, volume |-> adjust_lot(h), tp |-> tp]

\* ------------------------------------------------------------------ registry
GridState(name, ba, sa, bi, si, pb, ps, cb, cs) ==
    [name |-> name, buy_anchor_price |-> ba, sell_anchor_price |-> sa,
     buy_sequence_index |-> bi, sell_sequence_index |-> si,
     prev_buy_count |-> pb, prev_sell_count |-> ps,
     capped_buy |-> cb, capped_sell |-> cs]

Anchor(gs, side) == IF side = "BUY" THEN gs.buy_anchor_price ELSE gs.sell_anchor_price
SeqIndex(gs, side) == IF side = "BUY" THEN gs.buy_sequence_index ELSE gs.sell_sequence_index
CappedSide(gs, side) == IF side = "BUY" THEN gs.capped_buy ELSE gs.capped_sell
PrevCount(gs, side) == IF side = "BUY" THEN gs.prev_buy_count ELSE gs.prev_sell_count

\* grid_states[magic] = gs
Put(states, magic, gs) ==
    [m \in DOMAIN states \cup {magic} |-> IF m = magic THEN gs ELSE states[m]]
\* del grid_states[magic]
Del(states, magic) == [m \in DOMAIN states \ {magic} |-> states[m]]
Empty == [m \in {} |-> 0]

\* The state variables of the single-grid variant (src/mt5bot.py), which keeps
\* one grid in module globals instead of a registry.
Globals(lbl, lsl, nbp, nsp, jh, pbc, psc, bfi, sfi) ==
    [last_buy_lot |-> lbl, last_sell_lot |-> lsl, next_buy_px |-> nbp, next_sell_px |-> nsp,
     just_hedged |-> jh, prev_buy_count |-> pbc, prev_sell_count |-> psc,
     buy_fib_index |-> bfi, sell_fib_index |-> sfi]
\* Their values when the module is loaded.
ModuleGlobals == Globals(LOT_SMALL, LOT_SMALL, None, None, FALSE, 0, 0, 1, 1)

\* ------------------------------------------------------------------ venue requests
\* One request to the venue and its outcome, as the ghost log ev keeps it.
\* kind: "market" | "limit" | "cancel" | "modify" | "close"; k: the sequence
\* index a limit order was computed from, step: the step (pips) it used.
Ev(kind, magic, side, action, price, volume, k, step, retcode) ==
    [kind |-> kind, magic |-> magic, side |-> side, action |-> action, price |-> price,
     volume |-> volume, k |-> k, step |-> step, retcode |-> retcode]

Retcode(ok) == IF ok THEN "DONE" ELSE "REJECTED"

\* The bot's view while a handler runs: the venue's books, the registry, the log.
World(pos, ord, gs, nm, e) == [pos |-> pos, ord |-> ord, gs |-> gs, nm |-> nm, ev |-> e]

\* send_market_order(direction, lot, magic, grid_name, action, take_profit):
\* tp = None stands for take_profit=None (the default take-profit is computed).
send_market_order(w, ok, direction, h, magic, name, action, price, tp) ==
    LET filled == ok
        the_tp == IF tp = None THEN default_tp(w.pos, direction, price, magic) ELSE tp
        p == MarketPosition(direction, h, magic, name, action, price, the_tp)
        e == Ev("market", magic, direction, action, price, p.volume, None, None, Retcode(filled))
    IN [w EXCEPT !.pos = IF filled THEN Insert(@, p) ELSE @,
                 !.ev = Append(@, e)]

\* The indices of the pending orders cancel_pending_orders_by_side(direction, magic)
\* asks the venue to remove (magic = None: every magic).
CancelSet(ord, direction, magic) ==
    Idx(ord, LAMBDA o : (magic = None \/ o.magic = magic) /\ o.type = direction)

RECURSIVE CancelEvents(_, _, _, _)
CancelEvents(ord, set, fail, i) ==
    IF i > Len(ord) THEN <<>>
    ELSE (IF i \in set
          THEN <<Ev("cancel", ord[i].magic, ord[i].type, ord[i].action, ord[i].price,
                    ord[i].volume, None, None, Retcode(i \notin fail))>>
          ELSE <<>>) \o CancelEvents(ord, set, fail, i + 1)

\* cancel_pending_orders_by_side for BUY and then for SELL, with no order placed
\* in between (every caller cancels so).  fail: the indices whose removal the
\* venue rejects; sides: the sides cancelled.
cancel_pending_orders(w, sides, magic, fail) ==
    LET setB == IF "BUY" \in sides THEN CancelSet(w.ord, "BUY", magic) ELSE {}
        setS == IF "SELL" \in sides THEN CancelSet(w.ord, "SELL", magic) ELSE {}
        gone == (setB \cup setS) \ fail
    IN [w EXCEPT !.ord = Keep(w.ord, (1..Len(w.ord)) \ gone, 1),
                 !.ev = @ \o CancelEvents(w.ord, setB, fail, 1)
                          \o CancelEvents(w.ord, setS, fail, 1)]

\* ------------------------------------------------------------------ hedge_if_empty
NewGridState(name, buy_anchor_price, sell_anchor_price) ==
    GridState(name, buy_anchor_price, sell_anchor_price, 0, 0, 1, 1, FALSE, FALSE)

\* The paired market orders of a new basket, and its GridState when both filled.
paired_hedge(w, magic, name, okB, pB, okS, pS) ==
    LET w1 == send_market_order(w, okB, "BUY", 2 * LOT_SMALL, magic, name,
                                ACTION_INITIAL_HEDGE_BUY, pB, None)
        w2 == send_market_order(w1, okS, "SELL", 2 * LOT_SMALL, magic, name,
                                ACTION_INITIAL_HEDGE_SELL, pS, None)
        both == okB /\ okS
    IN IF both THEN [w2 EXCEPT !.gs = Put(@, magic, NewGridState(name, pB, pS))]
       ELSE w2

\* A bootstrap check that looks at the registry only.
BootstrapDue_unless_registered(gs, pos) == DOMAIN gs = {}
\* not (grid_states or positions_get(symbol)): hedge_if_empty goes on.
BootstrapDue(gs, pos) == DOMAIN gs = {} /\ Len(pos) = 0

hedge_if_empty(w, session, okB, pB, okS, pS) ==
    IF ~BootstrapDue(w.gs, w.pos) THEN w
    ELSE IF ENABLE_TRADING_HOURS /\ ~session THEN w
    ELSE paired_hedge(w, base_magic_number, 0, okB, pB, okS, pS)

\* ------------------------------------------------------------------ handle_closed_hedge
SetSide(gs, side, anchor, index) ==
    IF side = "BUY"
    THEN [gs EXCEPT !.buy_anchor_price = anchor, !.buy_sequence_index = index]
    ELSE [gs EXCEPT !.sell_anchor_price = anchor, !.sell_sequence_index = index]

\* A side emptied while the other still holds positions: cancel its stragglers,
\* and (inside the session) re-hedge it; a filled re-hedge sets anchor and index.
reset_side(w, magic, side, session, ok, price, fail) ==
    LET w1 == cancel_pending_orders(w, {side}, magic, fail)
        action == IF side = "BUY" THEN ACTION_RE_HEDGE_BUY ELSE ACTION_RE_HEDGE_SELL
        w2 == send_market_order(w1, ok, side, 2 * LOT_SMALL, magic, w.gs[magic].name,
                                action, price, None)
    IN IF ENABLE_TRADING_HOURS /\ ~session THEN w1
       ELSE IF ok THEN [w2 EXCEPT !.gs[magic] = SetSide(@, side, price, 0)]
       ELSE w2

\* A reset branch taken on any closure, the side still holding positions or not.
SideEmptied_on_any_closure(w, magic, side) ==
    LET gs == w.gs[magic]
        count == Cardinality(NonHedgeOfSide(w.pos, magic, side))
    IN count < PrevCount(gs, side) /\ ~CappedSide(gs, side)

\* A reset branch taken when the side lost a position, emptied or not.
SideEmptied_while_holding(w, magic, side) ==
    LET gs == w.gs[magic]
        count == Cardinality(NonHedgeOfSide(w.pos, magic, side))
        other == Cardinality(NonHedgeOfSide(w.pos, magic, Opposite(side)))
    IN count < PrevCount(gs, side) /\ ~CappedSide(gs, side) /\ other > 0

\* Whether handle_closed_hedge takes the reset branch of a side: the counts are
\* those read once at the start of the pass.
SideEmptied(w, magic, side) ==
    LET gs == w.gs[magic]
        count == Cardinality(NonHedgeOfSide(w.pos, magic, side))
        other == Cardinality(NonHedgeOfSide(w.pos, magic, Opposite(side)))
    IN count < PrevCount(gs, side) /\ ~CappedSide(gs, side) /\ count = 0 /\ other > 0

handle_closed_hedge(w, magic, session, ok, price, fail) ==
    LET current_buy_count == Cardinality(NonHedgeOfSide(w.pos, magic, "BUY"))
        current_sell_count == Cardinality(NonHedgeOfSide(w.pos, magic, "SELL"))
        w1 == IF SideEmptied(w, magic, "BUY")
              THEN reset_side(w, magic, "BUY", session, ok, price, fail) ELSE w
        w2 == IF SideEmptied(w, magic, "SELL")
              THEN reset_side(w1, magic, "SELL", session, ok, price, fail) ELSE w1
        w3 == [w2 EXCEPT !.gs[magic].prev_buy_count = current_buy_count,
                         !.gs[magic].prev_sell_count = current_sell_count]
    IN IF OfMagic(w.pos, magic) = {}
       THEN [cancel_pending_orders(w3, Sides, magic, fail) EXCEPT !.gs = Del(@, magic)]
       ELSE w3

\* ------------------------------------------------------------------ step_grid
PendingCount(ord, magic, side) == Cardinality(CancelSet(ord, side, magic))

\* step_pips: the dynamic step once the side holds the trigger count of positions.
step_pips(pos, magic, side) ==
    IF Cardinality(OfSide(pos, magic, side)) >= DYNAMIC_POSITIONS_TRIGGER
    THEN DYNAMIC_STEP_PIPS ELSE GRID_STEP_PIPS

\* A price ladder whose index 0 sits on the anchor.
price_level_from_zero(anchor, side, k, step) ==
    IF side = "BUY" THEN anchor - k * step * pip_val ELSE anchor + k * step * pip_val
\* current_price_level of sequence index k: one step from the anchor at k = 0.
price_level(anchor, side, k, step) ==
    IF side = "BUY" THEN anchor - (k + 1) * step * pip_val
    ELSE anchor + (k + 1) * step * pip_val

\* The limit order step_grid submits for sequence index k.
LimitOrder(w, magic, side, k) ==
    LET gs == w.gs[magic]
        price == price_level(Anchor(gs, side), side, k, step_pips(w.pos, magic, side))
    IN [magic |-> magic, type |-> side, name |-> gs.name,
        action |-> IF side = "BUY" THEN ACTION_GRID_LIMIT_BUY ELSE ACTION_GRID_LIMIT_SELL,
        price |-> price, volume |-> adjust_lot(2 * GRID_LOT_SEQUENCE[k + 1]),
        tp |-> default_tp(w.pos, side, price, magic)]

LimitEv(w, magic, side, k, retcode) ==
    LET o == LimitOrder(w, magic, side, k)
    IN Ev("limit", magic, side, o.action, o.price, o.volume, k,
          step_pips(w.pos, magic, side), retcode)

\* A loop guard that looks at the anchor only.
SideOpen_ignoring_cap(gs, side) == Anchor(gs, side) # None
\* The guard of a side's while loop: not capped, and an anchor is set.
SideOpen(gs, side) == ~CappedSide(gs, side) /\ Anchor(gs, side) # None

\* A loop that places one order per pass.
Room_one_per_pass(ord, magic, side) ==
    IF PendingCount(ord, magic, side) < MAX_PENDING_GRID_ORDERS_PER_SIDE THEN 1 ELSE 0
\* A cap that does not count the orders already pending.
Room_unbounded(ord, magic, side) == MAX_PENDING_GRID_ORDERS_PER_SIDE
\* How many more pending orders the per-side cap leaves room for.
Room(ord, magic, side) ==
    Max(0, MAX_PENDING_GRID_ORDERS_PER_SIDE - PendingCount(ord, magic, side))

\* The most limit orders the loop of one side can place in this pass.
MaxPlace(w, magic, side) ==
    LET gs == w.gs[magic]
    IN IF ~SideOpen(gs, side) THEN 0
       ELSE Max(0, Min(Room(w.ord, magic, side),
                       Len(GRID_LOT_SEQUENCE) - SeqIndex(gs, side)))

\* An index that moves past a rejected level as well.
sequence_index_skipping(idx, n, rejected) == idx + n + (IF rejected THEN 1 ELSE 0)
\* grid_state["buy_sequence_index"] += 1 on TRADE_RETCODE_DONE only: the index
\* after n accepted orders, whether or not the loop broke on a rejection.
sequence_index_after(idx, n, rejected) == idx + n

\* The loop of one side: n placements succeed; when n is less than the loop could
\* place, the next one was rejected with retcode and the loop broke.
step_side(w, magic, side, n, retcode) ==
    LET gs == w.gs[magic]
        idx == SeqIndex(gs, side)
        placed == [j \in 1..n |-> LimitOrder(w, magic, side, idx + j - 1)]
        events == [j \in 1..n |-> LimitEv(w, magic, side, idx + j - 1, "DONE")]
        broke == IF n < MaxPlace(w, magic, side)
                 THEN <<LimitEv(w, magic, side, idx + n, retcode)>> ELSE <<>>
    IN [w EXCEPT !.ord = InsertAll(@, placed),
                 !.ev = @ \o events \o broke,
                 !.gs[magic] = SetSide(@, side, Anchor(gs, side),
                                       sequence_index_after(idx, n, broke # <<>>))]

\* A gate that never closes.
GateOpen_always(pos) == TRUE
\* The global gate of step_grid.
GateOpen(pos) == Len(pos) < MAX_POSITIONS

step_grid(w, magic, session, nb, rb, ns, rs) ==
    IF ~GateOpen(w.pos) THEN w
    ELSE IF ENABLE_TRADING_HOURS /\ ~session THEN w
    ELSE step_side(step_side(w, magic, "BUY", nb, rb), magic, "SELL", ns, rs)

\* ------------------------------------------------------------------ trigger and capping
RECURSIVE ModifyEvents(_, _, _, _, _)
ModifyEvents(pos, set, fail, action, i) ==
    IF i > Len(pos) THEN <<>>
    ELSE (IF i \in set
          THEN <<Ev("modify", pos[i].magic, pos[i].type, action, pos[i].price_open,
                    pos[i].volume, None, None, Retcode(i \notin fail))>>
          ELSE <<>>) \o ModifyEvents(pos, set, fail, action, i + 1)

\* grid_state.update({'capped_buy': True, 'capped_sell': True})
SetCapped(gs, side) == [gs EXCEPT !.capped_buy = TRUE, !.capped_sell = TRUE]

\* The pending orders freeze_grid_and_start_new asks the venue to remove.
MayCancel(set) == set

\* A registry that always has room.
MaySpawn_always(gs) == TRUE
\* len(grid_states) < MAX_ACTIVE_GRIDS
MaySpawn(gs) == Cardinality(DOMAIN gs) < MAX_ACTIVE_GRIDS

\* freeze_grid_and_start_new: to_cap are the indices of positions_to_cap, side the
\* triggered side; failMod / failCancel: the rewrites / removals the venue rejects.
freeze_grid_and_start_new(w, magic, to_cap, side, failMod, failCancel, session, okB, pB, okS, pS) ==
    LET gs == w.gs[magic]
        tag == IF side = "BUY" THEN ACTION_CAPPED_BUY_TAG ELSE ACTION_CAPPED_SELL_TAG
        w1 == [w EXCEPT !.pos = [i \in 1..Len(w.pos) |->
                                    IF i \in to_cap \ failMod
                                    THEN [w.pos[i] EXCEPT !.name = gs.name, !.action = tag]
                                    ELSE w.pos[i]],
                        !.ev = @ \o ModifyEvents(w.pos, to_cap, failMod, tag, 1)]
        w2 == cancel_pending_orders(w1, MayCancel(Sides), magic, failCancel)
        w3 == [w2 EXCEPT !.gs[magic] = SetCapped(@, side)]
        w4 == paired_hedge(w3, w3.nm, gs.name + 1, okB, pB, okS, pS)
    IN IF ~MaySpawn(w3.gs) THEN w3
       ELSE IF ENABLE_TRADING_HOURS /\ ~session THEN w3
       ELSE IF w3.nm \in DOMAIN w4.gs THEN [w4 EXCEPT !.nm = @ + 1]
       ELSE w4

\* A trigger pass that does not look at the capped flags.
TriggeredSide_ignoring_cap(w, magic) ==
    IF Cardinality(OfSide(w.pos, magic, "BUY")) >= DYNAMIC_POSITIONS_TRIGGER THEN "BUY"
    ELSE IF Cardinality(OfSide(w.pos, magic, "SELL")) >= DYNAMIC_POSITIONS_TRIGGER THEN "SELL"
    ELSE "NONE"
\* A trigger pass that checks the SELL side first.
TriggeredSide_sell_first(w, magic) ==
    LET gs == w.gs[magic]
    IN IF ~gs.capped_sell
          /\ Cardinality(OfSide(w.pos, magic, "SELL")) >= DYNAMIC_POSITIONS_TRIGGER
       THEN "SELL"
       ELSE IF ~gs.capped_buy
               /\ Cardinality(OfSide(w.pos, magic, "BUY")) >= DYNAMIC_POSITIONS_TRIGGER
       THEN "BUY"
       ELSE "NONE"
\* The side whose branch handle_grid_trigger_and_cap takes for a basket: the BUY
\* check first, the SELL check as its elif; "NONE" when neither fires.
TriggeredSide(w, magic) ==
    LET gs == w.gs[magic]
    IN IF ~gs.capped_buy /\ Cardinality(OfSide(w.pos, magic, "BUY")) >= DYNAMIC_POSITIONS_TRIGGER
       THEN "BUY"
       ELSE IF ~gs.capped_sell
               /\ Cardinality(OfSide(w.pos, magic, "SELL")) >= DYNAMIC_POSITIONS_TRIGGER
       THEN "SELL"
       ELSE "NONE"

\* hedge_lot = adjust_lot(total_volume_to_cap / 2.0)
hedge_lot(pos, to_cap) == adjust_lot(SumVolume(Keep(pos, to_cap, 1), 1))

\* A check that takes every counter-hedge for placed.
hedge_placed_always(ok) == TRUE
\* send_market_order(...) is not None
hedge_placed(ok) == ok

\* One iteration of the loop of handle_grid_trigger_and_cap.
trigger_and_cap(w, magic, ok, price, failMod, failCancel, session, okB, pB, okS, pS) ==
    LET side == TriggeredSide(w, magic)
        to_cap == NonHedgeOfSide(w.pos, magic, side)
        tag == IF side = "BUY" THEN ACTION_DYNAMIC_HEDGE_SELL_TAG
               ELSE ACTION_DYNAMIC_HEDGE_BUY_TAG
        w1 == send_market_order(w, ok, Opposite(side), 2 * hedge_lot(w.pos, to_cap), magic,
                                w.gs[magic].name, tag, price, 0)
    IN IF side = "NONE" \/ to_cap = {} THEN w
       ELSE IF hedge_placed(ok)
       THEN freeze_grid_and_start_new(w1, magic, to_cap, side, failMod, failCancel,
                                      session, okB, pB, okS, pS)
       ELSE w1

\* ------------------------------------------------------------------ sync_all_tps
SyncEligible(pos, magic, direction) ==
    Idx(pos, LAMBDA p : p.magic = magic /\ p.type = direction
                        /\ ~HasCapped(p) /\ ~HasDynamicHedge(p))

\* The earliest-opened of the positions looked at.
oldest_position(pos, magic, direction) ==
    CHOOSE i \in SyncEligible(pos, magic, direction) :
       \A j \in SyncEligible(pos, magic, direction) : i <= j
\* all_positions_of_side.sort(key=(time_msc, ticket), reverse=True)[0]
newest_position(pos, magic, direction) ==
    CHOOSE i \in SyncEligible(pos, magic, direction) :
       \A j \in SyncEligible(pos, magic, direction) : j <= i

\* The positions whose take-profit sync_all_tps asks the venue to change.
SyncSet(w, magic, direction) ==
    LET elig == SyncEligible(w.pos, magic, direction)
        newest == newest_position(w.pos, magic, direction)
    IN IF CappedSide(w.gs[magic], direction) \/ elig = {} THEN {}
       ELSE IF w.pos[newest].tp = 0 THEN {}
       ELSE {i \in elig : i # newest /\ w.pos[i].tp # w.pos[newest].tp}

sync_all_tps(w, direction, magic, fail) ==
    LET elig == SyncEligible(w.pos, magic, direction)
        set == SyncSet(w, magic, direction)
        newest == newest_position(w.pos, magic, direction)
    IN IF set = {} THEN w
       ELSE [w EXCEPT !.pos = [i \in 1..Len(w.pos) |->
                                  IF i \in set \ fail
                                  THEN [w.pos[i] EXCEPT !.tp = w.pos[newest].tp,
                                                        !.name = w.gs[magic].name,
                                                        !.action = ACTION_SYNC_TP]
                                  ELSE w.pos[i]],
                      !.ev = @ \o ModifyEvents(w.pos, set, fail, ACTION_SYNC_TP, 1)]

\* ------------------------------------------------------------------ reconstruct_state_on_restart
\* The name parsed from the comments of a basket's positions (a single letter
\* A..Z of the first comment that parses), else chr(ord('A') + i % 26).
grid_name(pos, magic, i) ==
    LET ok == {j \in OfMagic(pos, magic) : pos[j].name \in 0..25}
    IN IF ok # {} THEN pos[CHOOSE j \in ok : \A l \in ok : j <= l].name ELSE i % 26

\* The anchor of a side: the open price of its earliest non-hedge position.
anchor_of(pos, magic, side) ==
    LET elig == NonHedgeOfSide(pos, magic, side)
    IN IF elig = {} THEN None ELSE pos[CHOOSE j \in elig : \A l \in elig : j <= l].price_open

\* The sequence index of a side: filled grid positions plus pending limit orders,
\* computed only when the side holds a position.
sequence_index_of(pos, ord, magic, side) ==
    IF OfSide(pos, magic, side) = {} THEN 0
    ELSE Cardinality({j \in OfSide(pos, magic, side) :
                         HasGridTag(pos[j], side) /\ ~HasDynamicHedge(pos[j])})
         + PendingCount(ord, magic, side)

\* capped_buy / capped_sell: the side's own capping tag among the side's positions.
capped_of(pos, magic, side) ==
    \E j \in OfSide(pos, magic, side) : HasCappedSpecific(pos[j], side)

Reconstructed(pos, ord, magic, i) ==
    GridState(grid_name(pos, magic, i),
              anchor_of(pos, magic, "BUY"), anchor_of(pos, magic, "SELL"),
              sequence_index_of(pos, ord, magic, "BUY"),
              sequence_index_of(pos, ord, magic, "SELL"),
              Cardinality(NonHedgeOfSide(pos, magic, "BUY")),
              Cardinality(NonHedgeOfSide(pos, magic, "SELL")),
              capped_of(pos, magic, "BUY"), capped_of(pos, magic, "SELL"))

\* A counter that is bumped rather than recomputed.
next_magic_bumped(nm, current_max_magic) == nm + 1
\* next_magic_number = current_max_magic + 1, if current_max_magic >= base_magic_number
next_magic_after(nm, current_max_magic) ==
    IF current_max_magic >= base_magic_number THEN current_max_magic + 1 ELSE nm

reconstruct_state_on_restart(w, session, okB, pB, okS, pS) ==
    LET set == {w.pos[j].magic : j \in 1..Len(w.pos)}
        magics == SortedSeq(set)
        current_max_magic == magics[Len(magics)]
        place(m) == CHOOSE i \in 1..Len(magics) : magics[i] = m
    IN IF Len(w.pos) = 0 THEN hedge_if_empty(w, session, okB, pB, okS, pS)
       ELSE [w EXCEPT !.nm = next_magic_after(@, current_max_magic),
                      !.gs = [m \in DOMAIN w.gs \cup set |->
                                 IF m \in set THEN Reconstructed(w.pos, w.ord, m, place(m) - 1)
                                 ELSE w.gs[m]]]

\* ------------------------------------------------------------------ circuit breaker
RECURSIVE CloseEvents(_, _, _)
CloseEvents(pos, fail, i) ==
    IF i > Len(pos) THEN <<>>
    ELSE <<Ev("close", pos[i].magic, pos[i].type, pos[i].action, pos[i].price_open,
              pos[i].volume, None, None, Retcode(i \notin fail))>>
         \o CloseEvents(pos, fail, i + 1)

\* close_all_symbol_positions: fail are the positions the venue does not close.
close_all_symbol_positions(w, fail) ==
    [w EXCEPT !.pos = Keep(w.pos, fail, 1), !.ev = @ \o CloseEvents(w.pos, fail, 1)]

\* cancel every pending order, close every position (both venue-wide).
flatten(w, failCancel, failClose) ==
    close_all_symbol_positions(cancel_pending_orders(w, Sides, None, failCancel), failClose)

ProfitReached(equity, baseline) ==
    PROFIT_TARGET_AMT > 0 /\ equity - baseline >= PROFIT_TARGET_AMT
LossReached(equity, baseline) ==
    MAX_LOSS_AMT > 0 /\ baseline - equity >= MAX_LOSS_AMT

\* ------------------------------------------------------------------ the venue
\* The pending order i fills at its price and becomes a position.
fill(w, i) ==
    [w EXCEPT !.pos = Insert(@, [magic |-> w.ord[i].magic, type |-> w.ord[i].type,
                                 name |-> w.ord[i].name, action |-> w.ord[i].action,
                                 price_open |-> w.ord[i].price, volume |-> w.ord[i].volume,
                                 tp |-> w.ord[i].tp]),
              !.ord = Keep(@, (1..Len(@)) \ {i}, 1)]

\* The position i closes (its take-profit or stop-loss is hit, or by hand).
close(w, i) == [w EXCEPT !.pos = Keep(@, (1..Len(@)) \ {i}, 1)]

\* What the venue does on its own, in the record of a request: a "fill", an
\* "exit" (a position closes), a move of "equity" or of the "quote", a "restart"
\* of the process; "tick" is the bot starting an iteration of its loop.
Act(kind, magic, side, action, price) ==
    Ev(kind, magic, side, action, price, None, None, None, "DONE")

\* A script names what the venue does next by kind, basket, side, tag and price.
Follows(e, d) ==
    /\ e.kind = d.kind /\ e.magic = d.magic /\ e.side = d.side
    /\ e.action = d.action /\ e.price = d.price

RECURSIVE Rejects(_)
\* The requests of a handler's log that the venue rejected, in order.
Rejects(e) ==
    IF e = <<>> THEN <<>>
    ELSE (IF Head(e).retcode # "DONE" THEN <<Head(e)>> ELSE <<>>) \o Rejects(Tail(e))

\* The venue acts (acts: what it does, in order).  While a script is left the
\* venue follows it; afterwards it acts freely, MaxVenueEvents times at most.
Venue(acts) ==
    IF plan # <<>>
    THEN /\ Len(acts) <= Len(plan)
         /\ \A i \in 1..Len(acts) : Follows(acts[i], plan[i])
         /\ plan' = SubSeq(plan, Len(acts) + 1, Len(plan))
         /\ UNCHANGED venue_events
    ELSE /\ venue_events + Len(acts) <= MaxVenueEvents
         /\ venue_events' = venue_events + Len(acts)
         /\ UNCHANGED plan

\* ------------------------------------------------------------------ run()
\* The outcomes the venue may give: a choice is offered only where the handler
\* makes the request.
Bools(asked) == IF asked THEN BOOLEAN ELSE {FALSE}
SubsetsIf(asked, set) == IF asked THEN SUBSET set ELSE {{}}
Rejections == {"10015", "REJECTED"}
\* is_trading_session_active(), where the handler asks.
Sessions(asked) == IF asked THEN {in_session} ELSE {FALSE}
\* The deal price of a market order: result.price.
Quote(direction) == IF direction = "BUY" THEN ask ELSE ask - Spread

\* The world a handler starts from; the log opens with the call itself.
W0(call, magic) ==
    World(positions, orders, grid_states, next_magic_number,
          <<Ev("call", magic, None, call, None, None, None, None, "DONE")>>)

\* The handler's effects become the state; first is what the venue did to
\* start the handler (an equity move), then come the requests it rejected.
Commit(w, first) ==
    /\ Venue(first \o Rejects(w.ev))
    /\ positions' = w.pos
    /\ orders' = w.ord
    /\ grid_states' = w.gs
    /\ next_magic_number' = w.nm
    /\ ev' = w.ev

Keys == SortedSeq(DOMAIN grid_states)

\* The process starts on a fresh account; the venue has no script.
Init ==
    /\ positions = <<>>
    /\ orders = <<>>
    /\ grid_states = Empty
    /\ next_magic_number = base_magic_number + 1
    /\ initial_equity \in Equities
    /\ pc = "start"
    /\ todo = <<>>
    /\ ev = <<>>
    /\ venue_events = 0
    /\ ask \in Prices
    /\ in_session \in BOOLEAN
    /\ plan = <<>>
    /\ single = ModuleGlobals

\* run(): mt5_login() has set the baseline; reconstruct_state_on_restart().
Start ==
    /\ pc = "start"
    /\ \E session \in Sessions(Len(positions) = 0) :
       \E okB \in Bools(session), okS \in Bools(session) :
          Commit(reconstruct_state_on_restart(W0("reconstruct_state_on_restart", None),
                                              session, okB, Quote("BUY"), okS, Quote("SELL")),
                 <<>>)
    /\ pc' = "check"
    /\ UNCHANGED <<initial_equity, todo, ask, in_session>>
    /\ UNCHANGED single

\* The profit target is reached: flatten, clear the registry, new baseline,
\* hedge_if_empty(), continue.
ProfitTarget ==
    /\ pc = "check"
    /\ \E equity \in Equities : ProfitReached(equity, initial_equity)
    /\ \E failCancel \in SUBSET (1..Len(orders)), failClose \in SUBSET (1..Len(positions)) :
       \E session \in Sessions(BootstrapDue(Empty, Keep(positions, failClose, 1))) :
       \E okB \in Bools(session), okS \in Bools(session) :
          LET w1 == flatten(W0("profit_target", None), failCancel, failClose)
              w2 == [w1 EXCEPT !.gs = Empty]
          IN Commit(hedge_if_empty(w2, session, okB, Quote("BUY"), okS, Quote("SELL")),
                    <<Act("equity", None, None, "profit", None)>>)
    /\ initial_equity' \in Equities
    /\ UNCHANGED <<pc, todo, ask, in_session>>
    /\ UNCHANGED single

\* The loss limit is reached: flatten and sys.exit(1).
MaxLoss ==
    /\ pc = "check"
    /\ \E equity \in Equities :
          /\ ~ProfitReached(equity, initial_equity)
          /\ LossReached(equity, initial_equity)
    /\ \E failCancel \in SUBSET (1..Len(orders)), failClose \in SUBSET (1..Len(positions)) :
          Commit(flatten(W0("max_loss", None), failCancel, failClose),
                 <<Act("equity", None, None, "loss", None)>>)
    /\ pc' = "exited"
    /\ UNCHANGED <<initial_equity, todo, ask, in_session>>
    /\ UNCHANGED single

\* Neither limit is reached: handle_grid_trigger_and_cap() starts on list(grid_states.keys()).
BeginTick ==
    /\ pc = "check"
    /\ \E equity \in Equities :
          /\ ~ProfitReached(equity, initial_equity)
          /\ ~LossReached(equity, initial_equity)
    /\ IF plan # <<>>
       THEN Follows(Act("tick", None, None, None, None), Head(plan)) /\ plan' = Tail(plan)
       ELSE UNCHANGED plan
    /\ pc' = "trigger"
    /\ todo' = Keys
    /\ ev' = <<>>
    /\ UNCHANGED <<positions, orders, grid_states, next_magic_number, initial_equity,
                   venue_events, ask, in_session>>
    /\ UNCHANGED single

\* One iteration of the loop of handle_grid_trigger_and_cap.
TriggerStep ==
    /\ pc = "trigger"
    /\ todo # <<>>
    /\ LET magic == Head(todo)
           w == W0("handle_grid_trigger_and_cap", magic)
           fires == TriggeredSide(w, magic) # "NONE"
                    /\ NonHedgeOfSide(positions, magic, TriggeredSide(w, magic)) # {}
           price == Quote(Opposite(TriggeredSide(w, magic)))
       IN \E ok \in Bools(fires) :
          \E failMod \in SubsetsIf(ok, NonHedgeOfSide(positions, magic, TriggeredSide(w, magic))) :
          \E failCancel \in SubsetsIf(ok, OfMagic(orders, magic)) :
          \E session \in Sessions(ok /\ MaySpawn(grid_states)) :
          \E okB \in Bools(session), okS \in Bools(session) :
             Commit(trigger_and_cap(w, magic, ok, price, failMod, failCancel,
                                    session, okB, Quote("BUY"), okS, Quote("SELL")), <<>>)
    /\ todo' = Tail(todo)
    /\ UNCHANGED <<initial_equity, pc, ask, in_session>>
    /\ UNCHANGED single

\* The trigger pass is over: the per-basket loop starts on list(grid_states.keys()).
EndTrigger ==
    /\ pc = "trigger"
    /\ todo = <<>>
    /\ pc' = "closed"
    /\ todo' = Keys
    /\ ev' = <<>>
    /\ UNCHANGED <<positions, orders, grid_states, next_magic_number, initial_equity,
                   venue_events, ask, in_session, plan>>
    /\ UNCHANGED single

\* A loop that goes on to step_grid without looking at the registry.
NextPass_unchecked(gs, magic) == "step"
\* if magic_key not in grid_states: continue
NextPass(gs, magic) == IF magic \in DOMAIN gs THEN "step" ELSE "closed"

\* handle_closed_hedge(magic_key); a basket it removes is skipped.
ClosedHedge ==
    /\ pc = "closed"
    /\ todo # <<>>
    /\ LET magic == Head(todo)
           w == W0("handle_closed_hedge", magic)
           side == IF SideEmptied(w, magic, "BUY") THEN "BUY" ELSE "SELL"
           reset == SideEmptied(w, magic, "BUY") \/ SideEmptied(w, magic, "SELL")
           cancels == reset \/ OfMagic(positions, magic) = {}
       IN \E fail \in SubsetsIf(cancels, OfMagic(orders, magic)) :
          \E session \in Sessions(reset) :
          \E ok \in Bools(session) :
             LET w1 == handle_closed_hedge(w, magic, session, ok, Quote(side), fail)
             IN /\ Commit(w1, <<>>)
                /\ pc' = NextPass(w1.gs, magic)
                /\ todo' = IF NextPass(w1.gs, magic) = "step" THEN todo ELSE Tail(todo)
    /\ UNCHANGED <<initial_equity, ask, in_session>>
    /\ UNCHANGED single

\* step_grid(magic_key)
StepGrid ==
    /\ pc = "step"
    /\ LET magic == Head(todo)
           w == W0("step_grid", magic)
       IN \E session \in Sessions(GateOpen(positions)) :
          \E nb \in 0..(IF session THEN MaxPlace(w, magic, "BUY") ELSE 0) :
          \E ns \in 0..(IF session THEN MaxPlace(w, magic, "SELL") ELSE 0) :
          \E rb \in (IF session /\ nb < MaxPlace(w, magic, "BUY") THEN Rejections ELSE {"DONE"}) :
          \E rs \in (IF session /\ ns < MaxPlace(w, magic, "SELL") THEN Rejections ELSE {"DONE"}) :
             Commit(step_grid(w, magic, session, nb, rb, ns, rs), <<>>)
    /\ pc' = "sync"
    /\ UNCHANGED <<initial_equity, todo, ask, in_session>>
    /\ UNCHANGED single

\* sync_all_tps("BUY", magic); sync_all_tps("SELL", magic); then the next basket.
SyncTps ==
    /\ pc = "sync"
    /\ LET magic == Head(todo)
           w == W0("sync_all_tps", magic)
       IN \E failB \in SUBSET SyncSet(w, magic, "BUY") :
          \E failS \in SUBSET SyncSet(w, magic, "SELL") :
             Commit(sync_all_tps(sync_all_tps(w, "BUY", magic, failB), "SELL", magic, failS),
                    <<>>)
    /\ pc' = "closed"
    /\ todo' = Tail(todo)
    /\ UNCHANGED <<initial_equity, ask, in_session>>
    /\ UNCHANGED single

\* The per-basket loop is over: hedge_if_empty(), sleep, next iteration.
Bootstrap ==
    /\ pc = "closed"
    /\ todo = <<>>
    /\ \E session \in Sessions(BootstrapDue(grid_states, positions)) :
       \E okB \in Bools(session), okS \in Bools(session) :
          Commit(hedge_if_empty(W0("hedge_if_empty", None), session, okB, Quote("BUY"),
                                okS, Quote("SELL")), <<>>)
    /\ pc' = "check"
    /\ UNCHANGED <<initial_equity, todo, ask, in_session>>
    /\ UNCHANGED single

\* ------------------------------------------------------------------ the venue acts
\* A pending limit order fills.
Fill ==
    /\ pc = "check"
    /\ \E i \in 1..Len(orders) :
          LET w == fill(W0("fill", None), i)
              o == orders[i]
          IN /\ Venue(<<Act("fill", o.magic, o.type, o.action, o.price)>>)
             /\ positions' = w.pos
             /\ orders' = w.ord
    /\ ev' = <<>>
    /\ UNCHANGED <<grid_states, next_magic_number, initial_equity, pc, todo, ask, in_session>>
    /\ UNCHANGED single

\* A position closes.
Close ==
    /\ pc = "check"
    /\ \E i \in 1..Len(positions) :
          LET p == positions[i]
          IN /\ Venue(<<Act("exit", p.magic, p.type, p.action, p.price_open)>>)
             /\ positions' = close(W0("close", None), i).pos
    /\ ev' = <<>>
    /\ UNCHANGED <<orders, grid_states, next_magic_number, initial_equity, pc, todo, ask, in_session>>
    /\ UNCHANGED single

\* The market moves: the venue quotes another price.
PriceMove ==
    /\ pc = "check"
    /\ \E p \in Prices \ {ask} :
          /\ Venue(<<Act("quote", None, None, None, p)>>)
          /\ ask' = p
    /\ ev' = <<>>
    /\ UNCHANGED <<positions, orders, grid_states, next_magic_number, initial_equity, pc, todo,
                   in_session>>
    /\ UNCHANGED single

\* The trading window opens or closes.  A scripted venue stays in session.
Clock ==
    /\ pc = "check"
    /\ plan = <<>>
    /\ in_session' = ~in_session
    /\ ev' = <<>>
    /\ UNCHANGED <<positions, orders, grid_states, next_magic_number, initial_equity, pc, todo,
                   venue_events, ask, plan>>
    /\ UNCHANGED single

\* The process stops (a crash, sys.exit, the operator) and is started again:
\* the globals are those of the module, mt5_login() sets the baseline.
Restart ==
    /\ pc \in {"check", "exited"}
    /\ Venue(<<Act("restart", None, None, None, None)>>)
    /\ pc' = "start"
    /\ grid_states' = Empty
    /\ next_magic_number' = base_magic_number + 1
    /\ initial_equity' \in Equities
    /\ todo' = <<>>
    /\ ev' = <<>>
    /\ UNCHANGED <<positions, orders, ask, in_session>>
    /\ single' = ModuleGlobals

\* An unexpected exception escapes the tick at a handler's boundary: it is
\* logged, and the finally block releases the connection (mt5.shutdown()).
UnexpectedError ==
    /\ pc \in {"trigger", "closed", "step", "sync"}
    /\ Venue(<<Act("exception", None, None, None, None)>>)
    /\ pc' = "exited"
    /\ todo' = <<>>
    /\ ev' = W0("shutdown", None).ev
    /\ UNCHANGED <<positions, orders, grid_states, next_magic_number, initial_equity, ask,
                   in_session>>
    /\ UNCHANGED single

Next ==
    \/ Start
    \/ ProfitTarget
    \/ MaxLoss
    \/ BeginTick
    \/ TriggerStep
    \/ EndTrigger
    \/ ClosedHedge
    \/ StepGrid
    \/ SyncTps
    \/ Bootstrap
    \/ Fill
    \/ Close
    \/ PriceMove
    \/ Clock
    \/ UnexpectedError
    \/ Restart

Spec == Init /\ [][Next]_vars

\* ------------------------------------------------------------------ earlier runs
Tick == Act("tick", None, None, None, None)

\* A run that leaves stragglers, at ask 100.  The initial BUY closes; when the
\* side is reset and re-hedged the venue keeps the first BUY limit order (98);
\* that order and the next one fill while the venue rejects the counter-hedge,
\* and the side goes on placing limit orders.  Then the process is restarted.
PlanStragglers ==
    <<Tick,
      Act("exit", base_magic_number, "BUY", ACTION_INITIAL_HEDGE_BUY, 100),
      Tick, Act("cancel", base_magic_number, "BUY", ACTION_GRID_LIMIT_BUY, 98),
      Act("fill", base_magic_number, "BUY", ACTION_GRID_LIMIT_BUY, 98),
      Tick, Act("market", base_magic_number, "SELL", ACTION_DYNAMIC_HEDGE_SELL_TAG,
                100 - Spread),
      Act("fill", base_magic_number, "BUY", ACTION_GRID_LIMIT_BUY, 98),
      Tick, Act("market", base_magic_number, "SELL", ACTION_DYNAMIC_HEDGE_SELL_TAG,
                100 - Spread),
      Act("restart", None, None, None, None)>>

\* A run that leaves positions of three baskets, at ask 100.  Basket A is
\* capped and B is spawned; A's counter-hedge closes and B places its limit
\* orders; the profit target flattens the account but the venue keeps B's first
\* BUY limit order; the next cycle opens a basket under the base magic again,
\* caps it and spawns a third magic; B's order fills.  Then the process is
\* restarted.
PlanThreeBaskets ==
    <<Tick,
      Act("fill", base_magic_number, "BUY", ACTION_GRID_LIMIT_BUY, 98),
      Tick,
      Act("exit", base_magic_number, "SELL", ACTION_DYNAMIC_HEDGE_SELL_TAG, 100 - Spread),
      Tick,
      Act("equity", None, None, "profit", None),
      Act("cancel", base_magic_number + 1, "BUY", ACTION_GRID_LIMIT_BUY, 98),
      Tick,
      Act("fill", base_magic_number, "BUY", ACTION_GRID_LIMIT_BUY, 98),
      Tick,
      Act("fill", base_magic_number + 1, "BUY", ACTION_GRID_LIMIT_BUY, 98),
      Act("restart", None, None, None, None)>>

\* The process starts on a fresh account and the venue follows a script that
\* ends with a restart of the process; afterwards the venue is free.
InitRestart ==
    /\ positions = <<>>
    /\ orders = <<>>
    /\ grid_states = Empty
    /\ next_magic_number = base_magic_number + 1
    /\ initial_equity \in Equities
    /\ pc = "start"
    /\ todo = <<>>
    /\ ev = <<>>
    /\ venue_events = 0
    /\ ask \in Prices
    /\ in_session = TRUE
    /\ plan \in {PlanStragglers, PlanThreeBaskets}
    /\ single = ModuleGlobals

SpecRestart == InitRestart /\ [][Next]_vars

\* A run that empties a basket with orders pending, at ask 100.  The basket
\* places its limit orders in the first tick, then both its initial positions
\* close.  Afterwards the venue is free.
PlanEmptied ==
    <<Tick,
      Act("exit", base_magic_number, "BUY", ACTION_INITIAL_HEDGE_BUY, 100),
      Act("exit", base_magic_number, "SELL", ACTION_INITIAL_HEDGE_SELL, 100 - Spread)>>

InitEmptied ==
    /\ positions = <<>>
    /\ orders = <<>>
    /\ grid_states = Empty
    /\ next_magic_number = base_magic_number + 1
    /\ initial_equity \in Equities
    /\ pc = "start"
    /\ todo = <<>>
    /\ ev = <<>>
    /\ venue_events = 0
    /\ ask = 100
    /\ in_session = TRUE
    /\ plan = PlanEmptied
    /\ single = ModuleGlobals

SpecEmptied == InitEmptied /\ [][Next]_vars

\* A run with a partial closure, at ask 100.  The first BUY limit order (98)
\* fills and the venue rejects the counter-hedge, so the BUY side stays
\* uncapped with two positions; the price moves to 101 and the filled grid
\* position closes.  Afterwards the venue is free.
PlanPartial ==
    <<Tick,
      Act("fill", base_magic_number, "BUY", ACTION_GRID_LIMIT_BUY, 98),
      Tick, Act("market", base_magic_number, "SELL", ACTION_DYNAMIC_HEDGE_SELL_TAG,
                100 - Spread),
      Act("quote", None, None, None, 101),
      Act("exit", base_magic_number, "BUY", ACTION_GRID_LIMIT_BUY, 98)>>

InitPartial ==
    /\ positions = <<>>
    /\ orders = <<>>
    /\ grid_states = Empty
    /\ next_magic_number = base_magic_number + 1
    /\ initial_equity \in Equities
    /\ pc = "start"
    /\ todo = <<>>
    /\ ev = <<>>
    /\ venue_events = 0
    /\ ask = 100
    /\ in_session = TRUE
    /\ plan = PlanPartial
    /\ single = ModuleGlobals

SpecPartial == InitPartial /\ [][Next]_vars

\* ================================================================== single-grid variant
\* src/mt5bot.py keeps one grid under the magic 12345 in module globals (the
\* variable single) and reads the venue by symbol, whatever the magic.  Its
\* handlers have the names of the multi-grid ones; here they carry the prefix
\* mt5bot_.  In the World of a handler the field gs holds the globals.

\* ------------------------------------------------------------------ mt5bot.py: config
FIB_LIMIT == 3
\* DYNAMIC_MULTIPLIER = 1.25, as the fraction 5/4
DYNAMIC_MULTIPLIER == <<5, 4>>

\* ------------------------------------------------------------------ mt5bot.py: lots, prices
RECURSIVE fib_loop(_, _, _, _)
\* for _ in range(2, n): a, b = b, a + b
fib_loop(a, b, i, n) == IF i >= n THEN b ELSE fib_loop(b, a + b, i + 1, n)
fib(n) == IF n <= 0 THEN 0 ELSE IF n = 1 THEN 1 ELSE fib_loop(1, 1, 2, n)

\* round(n / d): Python rounds a tie to the even neighbour.
round_half_even(n, d) ==
    LET q == n \div d
        r == n % d
    IN IF 2 * r < d THEN q
       ELSE IF 2 * r > d THEN q + 1
       ELSE IF q % 2 = 0 THEN q ELSE q + 1

\* adjust_lot(lot) for lot = n / d units of volume_step; the venue's volume_max
\* is not below LOT_MAX.
mt5bot_adjust_lot(n, d) == Min(LOT_MAX, Max(volume_min, round_half_even(n, d)))

NextPx(g, side) == IF side = "BUY" THEN g.next_buy_px ELSE g.next_sell_px
FibIndex(g, side) == IF side = "BUY" THEN g.buy_fib_index ELSE g.sell_fib_index
LastLot(g, side) == IF side = "BUY" THEN g.last_buy_lot ELSE g.last_sell_lot
SetNextPx(g, side, px) ==
    IF side = "BUY" THEN [g EXCEPT !.next_buy_px = px] ELSE [g EXCEPT !.next_sell_px = px]
SetLot(g, side, lot, index) ==
    IF side = "BUY" THEN [g EXCEPT !.last_buy_lot = lot, !.buy_fib_index = index]
    ELSE [g EXCEPT !.last_sell_lot = lot, !.sell_fib_index = index]

\* The positions of a side on the symbol: [p for p in positions if p.type == ...]
SideOf(pos, side) == Idx(pos, LAMBDA p : p.type = side)
\* The pending limit orders of a side on the symbol.
PendingOf(ord, side) == Idx(ord, LAMBDA o : o.type = side)

\* tp_price(direction, entry_price): the dynamic profit once the side holds the
\* trigger count of positions.
mt5bot_tp_price(pos, direction, entry_price) ==
    tp_price(direction, entry_price,
             IF Cardinality(SideOf(pos, direction)) >= DYNAMIC_POSITIONS_TRIGGER
             THEN DYNAMIC_PROFIT_PIPS ELSE PROFIT_PIPS)

\* The gap to the next level for a side that holds count positions.
gap_pips(count) ==
    IF count >= DYNAMIC_POSITIONS_TRIGGER THEN DYNAMIC_STEP_PIPS ELSE GRID_STEP_PIPS
\* One gap away from the market: lower for BUY, higher for SELL.
away(side, px, gap) == IF side = "BUY" THEN px - gap * pip_val ELSE px + gap * pip_val

\* ------------------------------------------------------------------ mt5bot.py: requests
\* send_market_order(direction, LOT_SMALL, action): True when the venue fills it.
mt5bot_send_market_order(w, ok, direction, action, price) ==
    LET p == [magic |-> base_magic_number, type |-> direction, name |-> 0,
              action |-> action, price_open |-> price,
              volume |-> mt5bot_adjust_lot(LOT_SMALL, 1),
              tp |-> mt5bot_tp_price(w.pos, direction, price)]
        e == Ev("market", p.magic, direction, action, price, p.volume, None, None, Retcode(ok))
    IN [w EXCEPT !.pos = IF ok THEN Insert(@, p) ELSE @, !.ev = Append(@, e)]

\* cancel_pending_orders_by_side(direction): a removal request for every pending
\* limit order of the side; fail are the orders the venue keeps.
mt5bot_cancel_pending_orders_by_side(w, direction, fail) ==
    cancel_pending_orders(w, {direction}, None, fail)

\* ------------------------------------------------------------------ mt5bot.py: recalc_grid
recalc_px(pos, side) ==
    LET mine == SideOf(pos, side)
        edge == CHOOSE i \in mine :
                   \A j \in mine : IF side = "BUY" THEN pos[i].price_open <= pos[j].price_open
                                   ELSE pos[i].price_open >= pos[j].price_open
    IN IF mine = {} THEN None
       ELSE away(side, pos[edge].price_open, gap_pips(Cardinality(mine)))

recalc_grid(w) ==
    [w EXCEPT !.gs.next_buy_px = recalc_px(w.pos, "BUY"),
              !.gs.next_sell_px = recalc_px(w.pos, "SELL")]

\* ------------------------------------------------------------------ mt5bot.py: hedge_if_empty
mt5bot_hedge_if_empty(w, okB, pB, okS, pS) ==
    LET w0 == [w EXCEPT !.gs = SetLot(SetLot(@, "BUY", LOT_SMALL, 1), "SELL", LOT_SMALL, 1)]
        w1 == mt5bot_send_market_order(w0, okB, "BUY", ACTION_INITIAL_HEDGE_BUY, pB)
        w2 == mt5bot_send_market_order(w1, okS, "SELL", ACTION_INITIAL_HEDGE_SELL, pS)
        w3 == recalc_grid(w2)
    IN IF Len(w.pos) > 0 THEN w
       ELSE IF okB /\ okS
       THEN [w3 EXCEPT !.gs.prev_buy_count = Cardinality(SideOf(w3.pos, "BUY")),
                       !.gs.prev_sell_count = Cardinality(SideOf(w3.pos, "SELL")),
                       !.gs.just_hedged = TRUE]
       ELSE w2

\* ------------------------------------------------------------------ mt5bot.py: handle_closed_hedge
\* The branch taken when the count of a side is below the stored one: the
\* side's pending orders are cancelled, its lot and index are reset, and it is re-hedged when it is empty and the other side is not.
mt5bot_reset_side(w, side, rehedge, ok, price, fail) ==
    LET w1 == mt5bot_cancel_pending_orders_by_side(w, side, fail)
        w2 == [w1 EXCEPT !.gs = SetNextPx(SetLot(@, side, LOT_SMALL, 1), side, None)]
        w3 == mt5bot_send_market_order(
                 w2, ok, side,
                 IF side = "BUY" THEN "rehedgebuyafterclosure" ELSE "rehedgesellafterclosure",
                 price)
    IN recalc_grid(IF ~rehedge THEN w2
                   ELSE IF ok THEN [w3 EXCEPT !.gs.just_hedged = TRUE]
                   ELSE w3)

\* A reset only of a side that emptied.
Closed_when_empty(w, side) ==
    SideOf(w.pos, side) = {} /\ Cardinality(SideOf(w.pos, side)) < PrevCount(w.gs, side)

\* Whether the handler resets a side: its count is below the stored count.
Closed(w, side) == Cardinality(SideOf(w.pos, side)) < PrevCount(w.gs, side)

\* The places, in the venue's list of orders after those of gone were removed,
\* of the orders that were at the places of set before.
Shift(set, gone) == {i - Cardinality({j \in gone : j < i}) : i \in set \ gone}

\* fail: the orders (by their place when the handler starts) whose removal the
\* venue rejects.
mt5bot_handle_closed_hedge(w, okB, pB, okS, pS, fail) ==
    LET buy0 == Cardinality(SideOf(w.pos, "BUY"))
        sell0 == Cardinality(SideOf(w.pos, "SELL"))
        hedgeB == buy0 = 0 /\ sell0 > 0
        w1 == IF Closed(w, "BUY") THEN mt5bot_reset_side(w, "BUY", hedgeB, okB, pB, fail)
              ELSE w
        goneB == IF Closed(w, "BUY") THEN PendingOf(w.ord, "BUY") \ fail ELSE {}
        current_buy_count == IF Closed(w, "BUY") /\ hedgeB /\ okB THEN 1 ELSE buy0
        hedgeS == sell0 = 0 /\ current_buy_count > 0
        w2 == IF Closed(w, "SELL")
              THEN mt5bot_reset_side(w1, "SELL", hedgeS, okS, pS, Shift(fail, goneB))
              ELSE w1
        current_sell_count == IF Closed(w, "SELL") /\ hedgeS /\ okS THEN 1 ELSE sell0
    IN [w2 EXCEPT !.gs.prev_buy_count = current_buy_count,
                  !.gs.prev_sell_count = current_sell_count]

\* ------------------------------------------------------------------ mt5bot.py: step_grid
\* raw_lot of the next order of a side, as a fraction of the volume step.
raw_lot(g, side) ==
    LET temp == FibIndex(g, side) + 1
    IN IF temp <= FIB_LIMIT THEN <<LOT_SMALL * fib(temp), 1>>
       ELSE <<LastLot(g, side) * DYNAMIC_MULTIPLIER[1], DYNAMIC_MULTIPLIER[2]>>

\* A placement that does not look at the pending cap.
MayPlace_uncapped(g, pending_orders, side) ==
    /\ NextPx(g, side) # None
    /\ \A i \in PendingOf(pending_orders, side) : pending_orders[i].price # NextPx(g, side)

\* Whether step_grid submits a limit order for the side: a target price, room
\* under the pending cap, and no pending order of the side at the target.
\* Prices are whole pips and the tolerance of isclose is 2 points, a fifth of a
\* pip: two prices are close when they are equal.
MayPlace(g, pending_orders, side) ==
    /\ NextPx(g, side) # None
    /\ Cardinality(PendingOf(pending_orders, side)) < MAX_PENDING_GRID_ORDERS_PER_SIDE
    /\ \A i \in PendingOf(pending_orders, side) : pending_orders[i].price # NextPx(g, side)

\* The target after an invalid-price rejection, when the target is left alone.
next_px_kept(side, px, count) == px
\* The target after an invalid-price rejection (10015): one gap further.
next_px_skipping(side, px, count) == away(side, px, gap_pips(count))

\* The BUY LIMIT / SELL LIMIT block: pending_orders and count are those read
\* before the first block; retcode is the venue's answer ("DONE", "10015", or
\* any other rejection, a None result included).
mt5bot_step_side(w, side, pending_orders, count, retcode) ==
    LET g == w.gs
        px == NextPx(g, side)
        temp == FibIndex(g, side) + 1
        lot == mt5bot_adjust_lot(raw_lot(g, side)[1], raw_lot(g, side)[2])
        o == [magic |-> base_magic_number, type |-> side, name |-> 0,
              action |-> IF side = "BUY" THEN "gridbuylimit" ELSE "gridselllimit",
              price |-> px, volume |-> lot, tp |-> mt5bot_tp_price(w.pos, side, px)]
        e == Ev("limit", o.magic, side, o.action, px, lot, temp, None, retcode)
    IN IF ~MayPlace(g, pending_orders, side) THEN w
       ELSE IF retcode = "DONE"
       THEN [w EXCEPT !.ord = Append(@, o), !.ev = Append(@, e),
                      !.gs = SetNextPx(SetLot(@, side, lot, temp), side,
                                       away(side, px, gap_pips(count + 1)))]
       ELSE IF retcode = "10015"
       THEN [w EXCEPT !.ev = Append(@, e),
                      !.gs = SetNextPx(@, side, next_px_skipping(side, px, count))]
       ELSE [w EXCEPT !.ev = Append(@, e)]

mt5bot_step_grid(w, retB, retS) ==
    LET none == w.gs.next_buy_px = None /\ w.gs.next_sell_px = None
        w1 == IF w.gs.next_buy_px = None \/ w.gs.next_sell_px = None THEN recalc_grid(w)
              ELSE w
        w2 == mt5bot_step_side(w1, "BUY", w.ord, Cardinality(SideOf(w.pos, "BUY")), retB)
    IN IF w.gs.just_hedged THEN w
       ELSE IF Len(w.pos) >= MAX_POSITIONS THEN w
       ELSE IF none /\ Len(w.pos) = 0 THEN w
       ELSE IF w1.gs.next_buy_px = None /\ w1.gs.next_sell_px = None /\ Len(w.pos) = 0 THEN w1
       ELSE mt5bot_step_side(w2, "SELL", w.ord, Cardinality(SideOf(w.pos, "SELL")), retS)

\* ------------------------------------------------------------------ mt5bot.py: sync_all_tps
\* The positions of a side whose take-profit differs from that of the newest.
mt5bot_SyncSet(pos, direction) ==
    LET mine == SideOf(pos, direction)
        newest == CHOOSE i \in mine : \A j \in mine : j <= i
    IN IF mine = {} THEN {}
       ELSE IF pos[newest].tp = 0 THEN {}
       ELSE {i \in mine : i # newest /\ pos[i].tp # pos[newest].tp}

\* fail: the positions whose modification the venue rejects.
mt5bot_sync_all_tps(w, direction, fail) ==
    LET mine == SideOf(w.pos, direction)
        newest == CHOOSE i \in mine : \A j \in mine : j <= i
        set == mt5bot_SyncSet(w.pos, direction)
    IN IF set = {} THEN w
       ELSE [w EXCEPT !.pos = [i \in 1..Len(w.pos) |->
                                  IF i \in set \ fail
                                  THEN [w.pos[i] EXCEPT !.tp = w.pos[newest].tp,
                                                        !.action = "synctpto"]
                                  ELSE w.pos[i]],
                      !.ev = @ \o ModifyEvents(w.pos, set, fail, "synctpto", 1)]

\* ------------------------------------------------------------------ mt5bot.py: run(), start
\* The index whose Fibonacci lot is the largest lot of the side: the first
\* match of 1..FIB_LIMIT, FIB_LIMIT above the largest Fibonacci lot, else 0.
matched_fib_index(max_lot) ==
    LET hits == {i \in 1..FIB_LIMIT : mt5bot_adjust_lot(LOT_SMALL * fib(i), 1) = max_lot}
    IN IF hits # {} THEN CHOOSE i \in hits : \A j \in hits : i <= j
       ELSE IF max_lot > mt5bot_adjust_lot(LOT_SMALL * fib(FIB_LIMIT), 1) THEN FIB_LIMIT
       ELSE 0

max_lot_of(pos, side) ==
    LET mine == SideOf(pos, side)
    IN pos[CHOOSE i \in mine : \A j \in mine : pos[j].volume <= pos[i].volume].volume

\* The lot and index of a side from the positions found at start.
restarted_side(g, pos, side) ==
    IF SideOf(pos, side) = {} THEN SetLot(g, side, LOT_SMALL, 0)
    ELSE SetLot(g, side, max_lot_of(pos, side), matched_fib_index(max_lot_of(pos, side)))

\* run() up to the loop: the state from the open positions, or the first hedge.
mt5bot_start(w, okB, pB, okS, pS) ==
    LET counted == [w.gs EXCEPT !.prev_buy_count = Cardinality(SideOf(w.pos, "BUY")),
                                !.prev_sell_count = Cardinality(SideOf(w.pos, "SELL"))]
        found == restarted_side(restarted_side(counted, w.pos, "BUY"), w.pos, "SELL")
        fresh == SetNextPx(SetNextPx(SetLot(SetLot(counted, "BUY", LOT_SMALL, 0),
                                            "SELL", LOT_SMALL, 0), "BUY", None), "SELL", None)
    IN IF Len(w.pos) > 0 THEN recalc_grid([w EXCEPT !.gs = found])
       ELSE mt5bot_hedge_if_empty([w EXCEPT !.gs = fresh], okB, pB, okS, pS)

\* The profit target: both sides cancelled, every position closed (failClose:
\* those the venue does not close), the state reset, hedge_if_empty().
mt5bot_profit_target(w, failCancel, failClose, okB, pB, okS, pS) ==
    LET w1 == cancel_pending_orders(w, Sides, None, failCancel)
        w2 == [w1 EXCEPT !.pos = Keep(w1.pos, failClose, 1),
                         !.ev = @ \o CloseEvents(w1.pos, failClose, 1),
                         !.gs = SetNextPx(SetNextPx(SetLot(SetLot(@, "BUY", LOT_SMALL, 0),
                                                           "SELL", LOT_SMALL, 0),
                                                    "BUY", None), "SELL", None)]
    IN mt5bot_hedge_if_empty(w2, okB, pB, okS, pS)

\* ------------------------------------------------------------------ mt5bot.py: run()
\* The world a handler of the single-grid variant starts from.
S0(call) ==
    World(positions, orders, single, next_magic_number,
          <<Ev("call", base_magic_number, None, call, None, None, None, None, "DONE")>>)

SingleCommit(w, first) ==
    /\ Venue(first \o Rejects(w.ev))
    /\ positions' = w.pos
    /\ orders' = w.ord
    /\ single' = w.gs
    /\ ev' = w.ev

\* The answers the venue may give to a limit order, where one is submitted.
Retcodes(asked) == IF asked THEN {"DONE"} \cup Rejections ELSE {"DONE"}

\* Whether step_grid submits a limit order for the side.
StepAsked(w, side) ==
    LET w1 == IF w.gs.next_buy_px = None \/ w.gs.next_sell_px = None THEN recalc_grid(w)
              ELSE w
    IN /\ ~w.gs.just_hedged
       /\ Len(w.pos) < MAX_POSITIONS
       /\ MayPlace(w1.gs, w.ord, side)

\* run() up to its loop.
SingleStart ==
    /\ pc = "start"
    /\ \E okB \in Bools(Len(positions) = 0), okS \in Bools(Len(positions) = 0) :
          SingleCommit(mt5bot_start(S0("run"), okB, Quote("BUY"), okS, Quote("SELL")), <<>>)
    /\ pc' = "check"
    /\ UNCHANGED <<grid_states, next_magic_number, initial_equity, todo, ask, in_session>>

\* The profit target is reached: cancel, close, reset, new baseline,
\* hedge_if_empty(), continue.
SingleProfitTarget ==
    /\ pc = "check"
    /\ \E equity \in Equities : ProfitReached(equity, initial_equity)
    /\ \E failCancel \in SUBSET (1..Len(orders)), failClose \in SUBSET (1..Len(positions)) :
       \E okB \in Bools(failClose = {}), okS \in Bools(failClose = {}) :
          SingleCommit(mt5bot_profit_target(S0("profit_target"), failCancel, failClose,
                                            okB, Quote("BUY"), okS, Quote("SELL")),
                       <<Act("equity", None, None, "profit", None)>>)
    /\ initial_equity' \in Equities
    /\ pc' = "check"
    /\ UNCHANGED <<grid_states, next_magic_number, todo, ask, in_session>>

\* The target is not reached: handle_closed_hedge()
SingleClosedHedge ==
    /\ pc = "check"
    /\ \E equity \in Equities : ~ProfitReached(equity, initial_equity)
    /\ LET w == S0("handle_closed_hedge")
           buy0 == Cardinality(SideOf(positions, "BUY"))
           sell0 == Cardinality(SideOf(positions, "SELL"))
           cancelled == {i \in 1..Len(orders) : Closed(w, orders[i].type)}
       IN \E fail \in SUBSET cancelled :
          \E okB \in Bools(Closed(w, "BUY") /\ buy0 = 0 /\ sell0 > 0),
             okS \in Bools(Closed(w, "SELL") /\ sell0 = 0 /\ buy0 > 0) :
             SingleCommit(mt5bot_handle_closed_hedge(w, okB, Quote("BUY"), okS, Quote("SELL"),
                                                     fail),
                          <<>>)
    /\ pc' = "hedge"
    /\ UNCHANGED <<grid_states, next_magic_number, initial_equity, todo, ask, in_session>>

\* hedge_if_empty()
SingleHedgeIfEmpty ==
    /\ pc = "hedge"
    /\ \E okB \in Bools(Len(positions) = 0), okS \in Bools(Len(positions) = 0) :
          SingleCommit(mt5bot_hedge_if_empty(S0("hedge_if_empty"), okB, Quote("BUY"),
                                             okS, Quote("SELL")),
                       <<>>)
    /\ pc' = "step"
    /\ UNCHANGED <<grid_states, next_magic_number, initial_equity, todo, ask, in_session>>

\* if just_hedged: just_hedged = False, else: step_grid()
SingleStepGrid ==
    /\ pc = "step"
    /\ IF single.just_hedged
       THEN SingleCommit([S0("just_hedged") EXCEPT !.gs.just_hedged = FALSE], <<>>)
       ELSE LET w == S0("step_grid")
            IN \E retB \in Retcodes(StepAsked(w, "BUY")), retS \in Retcodes(StepAsked(w, "SELL")) :
                  SingleCommit(mt5bot_step_grid(w, retB, retS), <<>>)
    /\ pc' = "sync"
    /\ UNCHANGED <<grid_states, next_magic_number, initial_equity, todo, ask, in_session>>

\* sync_all_tps("BUY"); sync_all_tps("SELL"); the tick ends.
SingleSyncTps ==
    /\ pc = "sync"
    /\ LET w == S0("sync_all_tps")
       IN \E fail \in SUBSET (mt5bot_SyncSet(positions, "BUY")
                                 \cup mt5bot_SyncSet(positions, "SELL")) :
             SingleCommit(mt5bot_sync_all_tps(mt5bot_sync_all_tps(w, "BUY", fail), "SELL", fail),
                          <<>>)
    /\ pc' = "check"
    /\ UNCHANGED <<grid_states, next_magic_number, initial_equity, todo, ask, in_session>>

\* An exception (or the operator's interrupt) ends the loop; the finally block
\* cancels the pending orders of both sides and releases the connection.
SingleShutdown ==
    /\ pc \in {"hedge", "step", "sync"}
    /\ \E fail \in SUBSET (1..Len(orders)) :
          SingleCommit(cancel_pending_orders(S0("shutdown"), Sides, None, fail),
                       <<Act("exception", None, None, None, None)>>)
    /\ pc' = "exited"
    /\ UNCHANGED <<grid_states, next_magic_number, initial_equity, todo, ask, in_session>>

SingleNext ==
    \/ SingleStart
    \/ SingleProfitTarget
    \/ SingleClosedHedge
    \/ SingleHedgeIfEmpty
    \/ SingleStepGrid
    \/ SingleSyncTps
    \/ SingleShutdown
    \/ Fill
    \/ Close
    \/ PriceMove
    \/ Restart

\* The single-grid variant starts on a fresh account, inside the session (it
\* has no trading window); the venue has no script.
InitSingle ==
    /\ positions = <<>>
    /\ orders = <<>>
    /\ grid_states = Empty
    /\ next_magic_number = base_magic_number + 1
    /\ initial_equity \in Equities
    /\ pc = "start"
    /\ todo = <<>>
    /\ ev = <<>>
    /\ venue_events = 0
    /\ ask \in Prices
    /\ in_session = TRUE
    /\ plan = <<>>
    /\ single = ModuleGlobals

SpecSingle == InitSingle /\ [][SingleNext]_vars

\* ------------------------------------------------------------------ properties
\* The requests of the given kinds that a step made under a basket's id.
Requests(e, kinds, magic) == {i \in 1..Len(e) : e[i].kind \in kinds /\ e[i].magic = magic}
\* The log e is that of the handler call.
Ran(e, call) == e # <<>> /\ e[1].kind = "call" /\ e[1].action = call
FullyCapped(gs) == gs.capped_buy /\ gs.capped_sell
\* A side on which step_grid has an order to place unless a flag or the gate stops it.
HasRoom(magic, side) ==
    /\ Anchor(grid_states[magic], side) # None
    /\ SeqIndex(grid_states[magic], side) < Len(GRID_LOT_SEQUENCE)
    /\ PendingCount(orders, magic, side) < MAX_PENDING_GRID_ORDERS_PER_SIDE

\* C1: within one process run, a basket whose capped flags freeze_grid_and_start_new
\* has set is never sent a limit order again: no step of the run submits a limit
\* order (accepted or not) under its id, on either side.
C1_CappedBasketGetsNoLimitOrder ==
    [][\A magic \in DOMAIN grid_states :
          FullyCapped(grid_states[magic]) => Requests(ev', {"limit"}, magic) = {}]_vars

\* step_grid has just run, with the gate open, for a capped basket that has an
\* anchor, lots left in the table and room under the pending cap.
C1_Witness ==
    /\ Ran(ev, "step_grid")
    /\ ev[1].magic \in DOMAIN grid_states
    /\ FullyCapped(grid_states[ev[1].magic])
    /\ GateOpen(positions)
    /\ \E side \in Sides : HasRoom(ev[1].magic, side)

\* The orders a basket places for itself: grid limit orders, re-hedges, counter-hedges.
BasketOrders ==
    {ACTION_GRID_LIMIT_BUY, ACTION_GRID_LIMIT_SELL, ACTION_RE_HEDGE_BUY, ACTION_RE_HEDGE_SELL,
     ACTION_DYNAMIC_HEDGE_BUY_TAG, ACTION_DYNAMIC_HEDGE_SELL_TAG}

\* C2: once a capped flag of a basket of the registry is set, no order is placed
\* under its id: no limit order, no re-hedge, no further counter-hedge.
C2_NoOrderAfterCap ==
    [][\A magic \in DOMAIN grid_states :
          (grid_states[magic].capped_buy \/ grid_states[magic].capped_sell)
          => \A i \in Requests(ev', {"limit", "market"}, magic) :
                ev'[i].action \notin BasketOrders]_vars

\* C3: in every state every basket of the registry has capped_buy = capped_sell.
C3_CappedFlagsAgree ==
    \A magic \in DOMAIN grid_states :
       grid_states[magic].capped_buy = grid_states[magic].capped_sell

\* C4: at the end of every tick, every basket id has at most
\* MAX_PENDING_GRID_ORDERS_PER_SIDE pending limit orders on each side.
C4_PendingWithinCap ==
    pc = "check"
    => \A i \in 1..Len(orders), side \in Sides :
          PendingCount(orders, orders[i].magic, side) <= MAX_PENDING_GRID_ORDERS_PER_SIDE

\* A tick has ended with a side at the cap that is open and has lots left in
\* the table: only the cap keeps step_grid from placing more.
C4_Witness ==
    /\ pc = "check"
    /\ \E magic \in DOMAIN grid_states, side \in Sides :
          /\ PendingCount(orders, magic, side) = MAX_PENDING_GRID_ORDERS_PER_SIDE
          /\ SideOpen(grid_states[magic], side)
          /\ SeqIndex(grid_states[magic], side) < Len(GRID_LOT_SEQUENCE)

\* C5: in every state the sequence index of every basket and side is at most
\* len(GRID_LOT_SEQUENCE).
C5_IndexWithinTable ==
    \A magic \in DOMAIN grid_states, side \in Sides :
       SeqIndex(grid_states[magic], side) <= Len(GRID_LOT_SEQUENCE)

\* The limit orders of one side among the requests of a log, up to request i.
LimitsBefore(e, magic, side, i) ==
    {j \in Requests(e, {"limit"}, magic) : e[j].side = side /\ j < i}

\* C6: every limit order step_grid submits is the one of the next sequence
\* index k of its side, at anchor - (k+1)*step*pip (BUY) or anchor + (k+1)*step*pip
\* (SELL), where anchor is the side's stored anchor and step is DYNAMIC_STEP_PIPS
\* if the basket holds at least DYNAMIC_POSITIONS_TRIGGER positions on that side
\* when the order is placed, else GRID_STEP_PIPS.
C6_LimitPrice ==
    [][\A magic \in DOMAIN grid_states : \A i \in Requests(ev', {"limit"}, magic) :
          LET e == ev'[i]
              anchor == Anchor(grid_states[magic], e.side)
              k == SeqIndex(grid_states[magic], e.side)
                   + Cardinality(LimitsBefore(ev', magic, e.side, i))
              count == Cardinality({j \in 1..Len(positions) :
                                       positions[j].magic = magic /\ positions[j].type = e.side})
              step == IF count >= DYNAMIC_POSITIONS_TRIGGER
                      THEN DYNAMIC_STEP_PIPS ELSE GRID_STEP_PIPS
          IN /\ e.k = k
             /\ e.price = IF e.side = "BUY" THEN anchor - (k + 1) * step * pip_val
                          ELSE anchor + (k + 1) * step * pip_val]_vars

\* step_grid has just placed a limit order beyond the first level with the
\* dynamic step.
C6_Witness ==
    /\ Ran(ev, "step_grid")
    /\ \E i \in 1..Len(ev) :
          ev[i].kind = "limit" /\ ev[i].retcode = "DONE" /\ ev[i].k > 0
          /\ ev[i].step = DYNAMIC_STEP_PIPS

\* C7: in every state the registry holds at most MAX_ACTIVE_GRIDS baskets.
C7_RegistryWithinLimit == Cardinality(DOMAIN grid_states) <= MAX_ACTIVE_GRIDS

\* C8: when step_grid starts for a basket while the account holds at least
\* MAX_POSITIONS open positions, it submits no limit order and leaves the
\* registry (so the basket's sequence indices) and the pending orders as they are.
C8_GlobalGate ==
    [][(pc = "step" /\ Len(positions) >= MAX_POSITIONS)
       => /\ \A i \in 1..Len(ev') : ev'[i].kind # "limit"
          /\ grid_states' = grid_states
          /\ orders' = orders]_vars

\* step_grid has just run at the gate for a basket with an open side that has
\* room: only the gate kept it from placing an order.
C8_Witness ==
    /\ Ran(ev, "step_grid")
    /\ Len(positions) >= MAX_POSITIONS
    /\ ev[1].magic \in DOMAIN grid_states
    /\ \E side \in Sides :
          SideOpen(grid_states[ev[1].magic], side) /\ HasRoom(ev[1].magic, side)

\* The counter-hedges of a log that the venue accepted / rejected.
Hedges(e, magic, retcodes) ==
    {i \in Requests(e, {"market"}, magic) :
        /\ e[i].action \in {ACTION_DYNAMIC_HEDGE_BUY_TAG, ACTION_DYNAMIC_HEDGE_SELL_TAG}
        /\ e[i].retcode \in retcodes}

\* The side of a basket that is at the trigger threshold and not capped.
AtTrigger(magic, side) ==
    /\ ~CappedSide(grid_states[magic], side)
    /\ Cardinality(OfSide(positions, magic, side)) >= DYNAMIC_POSITIONS_TRIGGER

\* C9: when the counter-hedge of a triggered side is accepted, then by the end
\* of that trigger pass no pending order of the basket remains at the venue.
C9_NoPendingOrderRemains ==
    [][\A magic \in DOMAIN grid_states :
          Hedges(ev', magic, {"DONE"}) # {} => OfMagic(orders', magic) = {}]_vars

\* C9, the rest of the statement: the accepted counter-hedge is on the side
\* opposite to the triggered one, its volume is adjust_lot of half the summed
\* volume of that side's non-hedge positions, and both capped flags are set.
C9_HedgeShape ==
    [][\A magic \in DOMAIN grid_states : \A i \in Hedges(ev', magic, {"DONE"}) :
          LET side == Opposite(ev'[i].side)
              total == SumVolume(Keep(positions, NonHedgeOfSide(positions, magic, side), 1), 1)
          IN /\ AtTrigger(magic, side)
             /\ side = "SELL" => ~AtTrigger(magic, "BUY")
             /\ ev'[i].volume = adjust_lot(total)
             /\ FullyCapped(grid_states'[magic])]_vars

Now == World(positions, orders, grid_states, next_magic_number, <<>>)

\* The re-hedges of a side among the requests of a log.
ReHedges(e, magic, side) ==
    {i \in Requests(e, {"market"}, magic) :
        e[i].side = side /\ e[i].action \in {ACTION_RE_HEDGE_BUY, ACTION_RE_HEDGE_SELL}}

\* C11: when handle_closed_hedge finds a side of an uncapped basket emptied (its
\* non-hedge count below the stored previous count and zero, the other side
\* still holding a position), then by the end of the pass no pending order of
\* that side remains, a solo market order was placed and filled on that side,
\* the side's sequence index is 0 and its anchor is the fill price of that order.
C11_EmptiedSideIsReset ==
    [][(pc = "closed" /\ todo # <<>>)
       => \A side \in Sides :
             LET magic == Head(todo)
             IN (magic \in DOMAIN grid_states /\ SideEmptied(Now, magic, side))
                => /\ CancelSet(orders', side, magic) = {}
                   /\ SeqIndex(grid_states'[magic], side) = 0
                   /\ \E i \in ReHedges(ev', magic, side) :
                         /\ ev'[i].retcode = "DONE"
                         /\ Anchor(grid_states'[magic], side) = ev'[i].price]_vars

\* C11, what the pass does do: the stragglers whose removal the venue accepts
\* are gone, and a re-hedge that fills sets index 0 and the anchor to its price;
\* the re-hedge is sent exactly when the session is active.
C11_ResetWhenFilled ==
    [][(pc = "closed" /\ todo # <<>>)
       => \A side \in Sides :
             LET magic == Head(todo)
             IN (magic \in DOMAIN grid_states /\ SideEmptied(Now, magic, side))
                => /\ (ReHedges(ev', magic, side) # {}) = in_session
                   /\ \A i \in Requests(ev', {"cancel"}, magic) : ev'[i].side = side
                   /\ Cardinality(CancelSet(orders', side, magic))
                         = Cardinality({i \in Requests(ev', {"cancel"}, magic) :
                                           ev'[i].retcode # "DONE"})
                   /\ \A i \in ReHedges(ev', magic, side) :
                         IF ev'[i].retcode = "DONE"
                         THEN /\ SeqIndex(grid_states'[magic], side) = 0
                              /\ Anchor(grid_states'[magic], side) = ev'[i].price
                         ELSE /\ SeqIndex(grid_states'[magic], side)
                                    = SeqIndex(grid_states[magic], side)
                              /\ Anchor(grid_states'[magic], side)
                                    = Anchor(grid_states[magic], side)]_vars

\* The rejected legs of a paired hedge among the requests of a log.
RejectedLegs(e) ==
    {i \in 1..Len(e) : /\ e[i].kind = "market"
                       /\ e[i].action \in {ACTION_INITIAL_HEDGE_BUY, ACTION_INITIAL_HEDGE_SELL}
                       /\ e[i].retcode # "DONE"}

SameAnchors(a, b) ==
    a.buy_anchor_price = b.buy_anchor_price /\ a.sell_anchor_price = b.sell_anchor_price

\* The next tick attempts a paired hedge (the session allowing): hedge_if_empty
\* finds neither basket nor position, or a basket is at its trigger with room
\* in the registry for a spawn.
PairedHedgeDue ==
    \/ DOMAIN grid_states = {} /\ positions = <<>>
    \/ /\ MaySpawn(grid_states)
       /\ \E magic \in DOMAIN grid_states :
             /\ TriggeredSide(Now, magic) # "NONE"
             /\ NonHedgeOfSide(positions, magic, TriggeredSide(Now, magic)) # {}

\* C12, the first half: a paired hedge with a rejected leg creates no GridState
\* under its id and changes no anchor of a basket that stays in the registry.
C12_RejectedLegNoBasket ==
    [][\A i \in RejectedLegs(ev') :
          /\ ev'[i].magic \notin DOMAIN grid_states'
          /\ \A magic \in DOMAIN grid_states \cap DOMAIN grid_states' :
                SameAnchors(grid_states[magic], grid_states'[magic])]_vars

\* C12: a paired hedge (bootstrap or spawn) with a rejected leg creates no
\* GridState and changes no anchor, and it is attempted again at the next tick:
\* the step leaves a state in which a paired hedge is due.
C12_RejectedHedgeRetried ==
    [][RejectedLegs(ev') # {}
       => /\ \A i \in RejectedLegs(ev') : ev'[i].magic \notin DOMAIN grid_states'
          /\ \A magic \in DOMAIN grid_states \cap DOMAIN grid_states' :
                SameAnchors(grid_states[magic], grid_states'[magic])
          /\ PairedHedgeDue']_vars

\* The globals of a process that has just started, on the venue as it is.
Fresh == World(positions, orders, Empty, base_magic_number + 1, <<>>)

\* reconstruct_state_on_restart twice in a row from w, for every outcome the
\* venue may give to the requests of the two calls (it makes requests only on
\* an empty account): if the first call left the venue's books as they were,
\* the second call leaves the registry and the next id as the first left them.
Idempotent(w) ==
    \A s1 \in Bools(Len(w.pos) = 0) :
    \A b1 \in Bools(s1), a1 \in Bools(s1) :
       LET w1 == reconstruct_state_on_restart(w, s1, b1, Quote("BUY"), a1, Quote("SELL"))
       IN (w1.pos = w.pos /\ w1.ord = w.ord)
          => \A s2 \in Bools(Len(w1.pos) = 0) :
             \A b2 \in Bools(s2), a2 \in Bools(s2) :
                LET w2 == reconstruct_state_on_restart(w1, s2, b2, Quote("BUY"), a2,
                                                       Quote("SELL"))
                IN w2.pos = w1.pos => (w2.gs = w1.gs /\ w2.nm = w1.nm)

\* C13: reconstruct_state_on_restart is idempotent: on every venue state, called
\* twice in a row with no venue change in between it yields the same registry
\* (ids, names, anchors, indices, flags, previous counts) and the same next id
\* as called once, from the globals of a fresh process and from the current ones.
C13_ReconstructIdempotent == Idempotent(Fresh) /\ Idempotent(Now)

\* The process has restarted onto an account with pending orders and a filled
\* grid position, and has rebuilt a registry from them.
C13_Witness ==
    /\ Ran(ev, "reconstruct_state_on_restart")
    /\ Len(ev) = 1
    /\ \E magic \in DOMAIN grid_states, side \in Sides :
          /\ PendingCount(orders, magic, side) > 0
          /\ SeqIndex(grid_states[magic], side) > PendingCount(orders, magic, side)

\* What reconstruct_state_on_restart builds from the venue as it is (no request
\* is made: the account holds positions, or the session is taken as closed).
Rebuilt == reconstruct_state_on_restart(Fresh, FALSE, FALSE, None, FALSE, None).gs

SameSides(a, b) ==
    /\ SameAnchors(a, b)
    /\ a.buy_sequence_index = b.buy_sequence_index
    /\ a.sell_sequence_index = b.sell_sequence_index
    /\ a.capped_buy = b.capped_buy
    /\ a.capped_sell = b.capped_sell

Rebuildable ==
    \A magic \in DOMAIN grid_states :
       magic \in DOMAIN Rebuilt /\ SameSides(grid_states[magic], Rebuilt[magic])

\* C14: at the end of every tick, reconstruct_state_on_restart run against the
\* venue as it is gives, for every basket of the registry, the anchors, sequence
\* indices and capped flags the registry holds.
C14_RegistryRebuildable == [][(pc = "closed" /\ todo = <<>>) => Rebuildable']_vars

\* A fresh basket of the paired hedge: the registry holds it alone, with its
\* two hedge positions and nothing else at the venue.
FreshBasketAlone ==
    /\ DOMAIN grid_states = {base_magic_number}
    /\ orders = <<>>
    /\ Len(positions) = 2
    /\ \A i \in 1..2 :
          /\ positions[i].magic = base_magic_number
          /\ positions[i].action \in {ACTION_INITIAL_HEDGE_BUY, ACTION_INITIAL_HEDGE_SELL}
    /\ positions[1].type # positions[2].type

\* C15: when the circuit-breaker check finds the profit target reached, the same
\* loop iteration cancels every pending order, closes every position, empties
\* the registry and places a fresh paired hedge that creates a new basket: the
\* iteration ends with that basket alone at the venue and in the registry, and
\* the loop keeps running.
C15_ProfitTargetResets ==
    [][Ran(ev', "profit_target") => FreshBasketAlone' /\ pc' = "check"]_vars

\* C15, what the code gives: the registry is emptied and the loop keeps running;
\* the fresh basket is there when the venue accepted every request and the
\* session was active.
C15_ResetWhenAccepted ==
    [][Ran(ev', "profit_target")
       => /\ pc' = "check"
          /\ DOMAIN grid_states' \subseteq {base_magic_number}
          /\ (in_session /\ \A i \in 1..Len(ev') : ev'[i].retcode = "DONE")
                => FreshBasketAlone']_vars

\* The requests a step sent to the venue.
Sent(e) == {i \in 1..Len(e) : e[i].kind \in {"market", "limit", "cancel", "modify", "close"}}

\* The process has exited and stays so: it sends nothing and runs no tick; only
\* a new process (a restart by the operator) follows.
Silent == pc' = "start" \/ (pc' = "exited" /\ Sent(ev') = {})

\* C16: when the circuit-breaker check finds the loss limit reached, every
\* pending order is cancelled and every position closed, and the process
\* terminates: it places no order after the flattening and runs no other tick.
C16_MaxLossFlattensAndStops ==
    [][/\ Ran(ev', "max_loss") => orders' = <<>> /\ positions' = <<>> /\ pc' = "exited"
       /\ pc = "exited" => Silent]_vars

\* C16, what the code gives: the flattening asks for every removal and close and
\* sends nothing else, the orders and positions left are those the venue
\* refused, and the process exits for good.
C16_ExitsAfterFlatten ==
    [][/\ Ran(ev', "max_loss")
          => /\ pc' = "exited"
             /\ \A i \in Sent(ev') : ev'[i].kind \in {"cancel", "close"}
             /\ Cardinality({i \in Sent(ev') : ev'[i].kind = "cancel"}) = Len(orders)
             /\ Cardinality({i \in Sent(ev') : ev'[i].kind = "close"}) = Len(positions)
             /\ Len(orders') + Len(positions')
                   = Cardinality({i \in Sent(ev') : ev'[i].retcode # "DONE"})
       /\ pc = "exited" => Silent]_vars

\* C17: at the end of every handle_closed_hedge pass, a basket with no open
\* position on either side is out of the registry and none of its pending
\* orders is left (they were cancelled before the removal); a basket that still
\* holds a position is not removed by the pass.
C17_EmptyBasketRemoved ==
    [][Ran(ev', "handle_closed_hedge")
       => LET magic == ev'[1].magic
          IN /\ OfMagic(positions', magic) = {}
                   => magic \notin DOMAIN grid_states' /\ OfMagic(orders', magic) = {}
             /\ OfMagic(positions', magic) # {} => magic \in DOMAIN grid_states']_vars

\* C17, what the code gives: the basket is removed exactly when it holds no
\* position, after a removal was asked for each of its pending orders; the
\* orders left are those whose removal the venue rejected.
C17_RemovedAfterCancelRequests ==
    [][Ran(ev', "handle_closed_hedge")
       => LET magic == ev'[1].magic
              cancels == {i \in Requests(ev', {"cancel"}, magic) : TRUE}
          IN /\ (magic \notin DOMAIN grid_states') <=> (OfMagic(positions', magic) = {})
             /\ magic \notin DOMAIN grid_states'
                   => /\ Cardinality(cancels) = Cardinality(OfMagic(orders, magic))
                      /\ Cardinality(OfMagic(orders', magic))
                            = Cardinality({i \in cancels : ev'[i].retcode # "DONE"})]_vars

\* The legs of a paired hedge among the requests of a log that the venue filled.
FilledLegs(e) ==
    {i \in 1..Len(e) : /\ e[i].kind = "market"
                       /\ e[i].action \in {ACTION_INITIAL_HEDGE_BUY, ACTION_INITIAL_HEDGE_SELL}
                       /\ e[i].retcode = "DONE"}

\* The GridState of a basket that has just been spawned by the legs of the log e.
SpawnedBy(gs, e) ==
    /\ gs.buy_sequence_index = 0 /\ gs.sell_sequence_index = 0
    /\ ~gs.capped_buy /\ ~gs.capped_sell
    /\ \A i \in FilledLegs(e) : Anchor(gs, e[i].side) = e[i].price

\* C18: in a trigger pass the registry gains a basket only after an accepted
\* counter-hedge, with fewer than MAX_ACTIVE_GRIDS baskets in the registry and
\* the session active; when both market orders of the spawn are filled the new
\* basket's id is in the registry for the first time, its indices are 0, its
\* flags false and its anchors the fill prices of its own two orders; otherwise
\* the registry holds the same baskets as before.
C18_SpawnAfterCapping ==
    [][Ran(ev', "handle_grid_trigger_and_cap")
       => LET capped == ev'[1].magic
              legs == FilledLegs(ev')
          IN /\ DOMAIN grid_states' # DOMAIN grid_states
                   => /\ Hedges(ev', capped, {"DONE"}) # {}
                      /\ Cardinality(DOMAIN grid_states) < MAX_ACTIVE_GRIDS
                      /\ in_session
             /\ Cardinality(legs) = 2
                   => \E magic \in DOMAIN grid_states' \ DOMAIN grid_states :
                         /\ DOMAIN grid_states' = DOMAIN grid_states \cup {magic}
                         /\ \A i \in legs : ev'[i].magic = magic
                         /\ {ev'[i].side : i \in legs} = Sides
                         /\ SpawnedBy(grid_states'[magic], ev')
             /\ Cardinality(legs) # 2 => DOMAIN grid_states' = DOMAIN grid_states]_vars

\* A capping has just spawned a basket with both its market orders filled.
C18_Witness ==
    /\ Ran(ev, "handle_grid_trigger_and_cap")
    /\ Hedges(ev, ev[1].magic, {"DONE"}) # {}
    /\ Cardinality(FilledLegs(ev)) = 2
    /\ FullyCapped(grid_states[ev[1].magic])
    /\ Cardinality(DOMAIN grid_states) = 2

\* The id of the next spawn is the id of no basket in the registry.
C18_NextIdIsNew == next_magic_number \notin DOMAIN grid_states

\* The latest-opened of the positions the synchronizer looks at (the books keep
\* them in opening order, ticket order among equal times).
Newest(pos, magic, side) ==
    CHOOSE i \in SyncEligible(pos, magic, side) : \A j \in SyncEligible(pos, magic, side) : j <= i

\* The take-profits of a side after a pass are those the synchronizer is to
\* leave: the newest position's on every position it looks at, or, when that
\* take-profit is zero, the ones they had.
Synced(magic, side) ==
    LET elig == SyncEligible(positions, magic, side)
        tp == positions[Newest(positions, magic, side)].tp
    IN elig # {} => \A i \in elig : positions'[i].tp = (IF tp # 0 THEN tp ELSE positions[i].tp)

\* The positions tagged as counter-hedge or as capped are as they were.
HedgesAndCappedKept ==
    /\ Len(positions') = Len(positions)
    /\ \A i \in 1..Len(positions) :
          HasCapped(positions[i]) \/ HasDynamicHedge(positions[i]) => positions'[i] = positions[i]

\* C19: after sync_all_tps for a basket and a side, the venue accepting every
\* modification, every position of the side that is neither a counter-hedge nor
\* capped has the take-profit of the latest-opened of them when that is not
\* zero, and its own when it is; counter-hedge and capped positions are never
\* modified.
C19_TakeProfitsAligned ==
    [][(Ran(ev', "sync_all_tps") /\ \A i \in 1..Len(ev') : ev'[i].retcode = "DONE")
       => /\ \A side \in Sides : Synced(ev'[1].magic, side)
          /\ HedgesAndCappedKept]_vars

\* C19 for the sides whose capped flag is not set in the registry.
C19_OpenSidesAligned ==
    [][Ran(ev', "sync_all_tps")
       => /\ (\A i \in 1..Len(ev') : ev'[i].retcode = "DONE")
                => \A side \in Sides : ~CappedSide(grid_states[ev'[1].magic], side)
                                          => Synced(ev'[1].magic, side)
          /\ HedgesAndCappedKept]_vars

\* The synchronizer has just changed a take-profit.
C19_Witness ==
    /\ Ran(ev, "sync_all_tps")
    /\ \E i \in Requests(ev, {"modify"}, ev[1].magic) : ev[i].retcode = "DONE"

\* The orders a step placed: market orders and limit orders, accepted or not.
Placed(e) == {i \in 1..Len(e) : e[i].kind \in {"market", "limit"}}

\* C20: while the trading-session gating is enabled and the time is outside the
\* window, no step of the bot places an order of any kind: no bootstrap hedge,
\* no re-hedge, no limit order, no counter-hedge and no spawn hedge.
C20_NoOrderOutsideSession ==
    [][(ENABLE_TRADING_HOURS /\ ~in_session) => Placed(ev') = {}]_vars

\* C20, what the code gives: outside the window the only order the bot places
\* is the counter-hedge of a capping.
C20_OnlyCounterHedgeOutsideSession ==
    [][(ENABLE_TRADING_HOURS /\ ~in_session)
       => \A i \in Placed(ev') :
             ev'[i].action \in {ACTION_DYNAMIC_HEDGE_BUY_TAG, ACTION_DYNAMIC_HEDGE_SELL_TAG}]_vars

\* C21: when an unexpected exception escapes a tick of the main loop, the
\* orderly shutdown cancels the bot's outstanding pending orders before the
\* process stops: none is left at the venue when the process has exited.
C21_ShutdownCancelsOrders ==
    [][Ran(ev', "shutdown") => orders' = <<>> /\ pc' = "exited"]_vars

\* C21, what the code gives: the process stops, and the shutdown sends no
\* request and leaves the venue's books as the tick left them.
C21_ShutdownLeavesBooks ==
    [][Ran(ev', "shutdown")
       => /\ pc' = "exited"
          /\ Len(ev') = 1
          /\ orders' = orders /\ positions' = positions]_vars

\* The step is a re-hedge of the side after it emptied: the side held no
\* non-hedge position and the filled re-hedge gives the new anchor.
ReAnchored(magic, side) ==
    /\ NonHedgeOfSide(positions, magic, side) = {}
    /\ \E i \in ReHedges(ev', magic, side) :
          ev'[i].retcode = "DONE" /\ ev'[i].price = Anchor(grid_states'[magic], side)

\* The step is the profit target's reset: every position was closed and the
\* basket is a new one under the base id.
Recycled(magic) ==
    /\ Ran(ev', "profit_target")
    /\ \A i \in 1..Len(ev') : ev'[i].kind = "close" => ev'[i].retcode = "DONE"
    /\ magic = base_magic_number

\* C22: within a run, while a side of a basket holds a non-hedge position its
\* anchor does not change: no step of step_grid, of the trigger pass, of the
\* synchronizer or of handle_closed_hedge on a partial closure changes it; the
\* anchor of a basket that stays in the registry changes only by a filled
\* re-hedge of a side that held no non-hedge position.
C22_AnchorKept ==
    [][\A magic \in DOMAIN grid_states \cap DOMAIN grid_states' :
          \A side \in Sides :
             Anchor(grid_states'[magic], side) # Anchor(grid_states[magic], side)
                => ReAnchored(magic, side) \/ Recycled(magic)]_vars

\* A pass of handle_closed_hedge has just run on a side that holds a position
\* after a closure (its index counts an order that is neither pending nor an
\* open grid position) and has sent no request.
C22_Witness ==
    /\ Ran(ev, "handle_closed_hedge")
    /\ Len(ev) = 1
    /\ ev[1].magic \in DOMAIN grid_states
    /\ \E side \in Sides :
          LET magic == ev[1].magic
              grid == {i \in NonHedgeOfSide(positions, magic, side) :
                          HasGridTag(positions[i], side)}
          IN /\ NonHedgeOfSide(positions, magic, side) # {}
             /\ Anchor(grid_states[magic], side) # None
             /\ ~CappedSide(grid_states[magic], side)
             /\ SeqIndex(grid_states[magic], side)
                   > PendingCount(orders, magic, side) + Cardinality(grid)

\* The limit orders of a side among the requests of a step_grid log.
Limits(e, magic, side) == {i \in Requests(e, {"limit"}, magic) : e[i].side = side}

C26_NextAttemptSameLevel ==
    [][Ran(ev', "step_grid")
       => \A side \in Sides :
             \A i \in Limits(ev', ev'[1].magic, side) :
                (\A j \in Limits(ev', ev'[1].magic, side) : i <= j)
                   => ev'[i].k = SeqIndex(grid_states[ev'[1].magic], side)]_vars

\* C27: when handle_closed_hedge finds a side emptied and the re-anchoring
\* market order is rejected, or skipped because the session is closed, the
\* re-anchor is attempted again on a later tick: the pass leaves the basket in a
\* state in which the next pass takes the reset branch of that side again (the
\* side still empty, the other side still holding a position).
C27_ReAnchorRetried ==
    [][Ran(ev', "handle_closed_hedge")
       => LET magic == ev'[1].magic
          IN \A side \in Sides :
                (/\ SideEmptied(Now, magic, side)
                 /\ \A i \in ReHedges(ev', magic, side) : ev'[i].retcode # "DONE")
                   => SideEmptied(Now', magic, side)]_vars

\* C27, what the code gives: after such a pass the stored previous count of the
\* side is 0, its anchor and index are the old ones, and no later pass takes
\* the reset branch while the side stays empty.
C27_ReAnchorDropped ==
    [][Ran(ev', "handle_closed_hedge")
       => LET magic == ev'[1].magic
          IN \A side \in Sides :
                (/\ SideEmptied(Now, magic, side)
                 /\ \A i \in ReHedges(ev', magic, side) : ev'[i].retcode # "DONE")
                   => /\ PrevCount(grid_states'[magic], side) = 0
                      /\ ~SideEmptied(Now', magic, side)
                      /\ Anchor(grid_states'[magic], side) = Anchor(grid_states[magic], side)
                      /\ SeqIndex(grid_states'[magic], side)
                            = SeqIndex(grid_states[magic], side)]_vars

\* The filled grid-tagged, non-hedge positions of a side.
FilledGrid(pos, magic, side) ==
    {j \in OfSide(pos, magic, side) : HasGridTag(pos[j], side) /\ ~HasDynamicHedge(pos[j])}

\* C28: reconstruct_state_on_restart gives every basket it registers, on each
\* side, a sequence index equal to the side's filled grid-tagged non-hedge
\* positions plus the basket's live pending limit orders of that side, a side
\* with pending orders and no open position included.
C28_IndexCountsFilledAndPending ==
    [][(Ran(ev', "reconstruct_state_on_restart") /\ Len(positions) > 0)
       => \A magic \in DOMAIN grid_states' : \A side \in Sides :
             SeqIndex(grid_states'[magic], side)
                = Cardinality(FilledGrid(positions, magic, side))
                  + PendingCount(orders, magic, side)]_vars

\* C28, what the code gives: the sum on a side that holds a position, 0 on a
\* side that holds none, whatever its pending orders.
C28_IndexOnlyOnOpenSides ==
    [][(Ran(ev', "reconstruct_state_on_restart") /\ Len(positions) > 0)
       => \A magic \in DOMAIN grid_states' : \A side \in Sides :
             SeqIndex(grid_states'[magic], side)
                = IF OfSide(positions, magic, side) = {} THEN 0
                  ELSE Cardinality(FilledGrid(positions, magic, side))
                       + PendingCount(orders, magic, side)]_vars

\* The requests of a side in a log: cancellations, market and limit orders.
SideRequests(e, magic, side) ==
    {i \in Requests(e, {"cancel", "market", "limit"}, magic) : e[i].side = side}

\* The side of the basket lost a non-hedge position since the last pass and
\* still holds one.
PartlyClosed(magic, side) ==
    /\ magic \in DOMAIN grid_states
    /\ Cardinality(NonHedgeOfSide(positions, magic, side)) > 0
    /\ Cardinality(NonHedgeOfSide(positions, magic, side))
          < PrevCount(grid_states[magic], side)

\* C29: a handle_closed_hedge pass that finds a side's non-hedge count lower
\* than the stored one but above zero takes no structural action on that side:
\* it sends no cancellation and no market order for it, the side's pending
\* orders, anchor and sequence index are as before, and the stored previous
\* count of the side becomes the current count.
C29_PartialClosureNoAction ==
    [][Ran(ev', "handle_closed_hedge")
       => LET magic == ev'[1].magic
          IN \A side \in Sides :
                PartlyClosed(magic, side)
                   => /\ SideRequests(ev', magic, side) = {}
                      /\ PendingCount(orders', magic, side) = PendingCount(orders, magic, side)
                      /\ Cardinality(OfSide(positions', magic, side))
                            = Cardinality(OfSide(positions, magic, side))
                      /\ magic \in DOMAIN grid_states'
                      /\ Anchor(grid_states'[magic], side) = Anchor(grid_states[magic], side)
                      /\ SeqIndex(grid_states'[magic], side) = SeqIndex(grid_states[magic], side)
                      /\ PrevCount(grid_states'[magic], side)
                            = Cardinality(NonHedgeOfSide(positions, magic, side))]_vars

\* After a pass on a partly closed side: the side holds a position and all its
\* pending orders, the index still counts the position that closed, and the
\* stored count is the current one.
C29_Witness ==
    /\ Ran(ev, "handle_closed_hedge")
    /\ ev[1].magic \in DOMAIN grid_states
    /\ \E side \in Sides :
          LET magic == ev[1].magic
              held == NonHedgeOfSide(positions, magic, side)
          IN /\ held # {}
             /\ SideRequests(ev, magic, side) = {}
             /\ PrevCount(grid_states[magic], side) = Cardinality(held)
             /\ PendingCount(orders, magic, side) = MAX_PENDING_GRID_ORDERS_PER_SIDE
             /\ SeqIndex(grid_states[magic], side)
                   = PendingCount(orders, magic, side) + 1
             /\ \A i \in held : ~HasGridTag(positions[i], side)

\* C30: after every handle_closed_hedge pass that leaves the basket in the
\* registry, whichever branch it took, the stored prev_buy_count and
\* prev_sell_count are the basket's non-hedge position counts per side at the
\* end of the pass.
C30_PrevCountsAreCurrent ==
    [][Ran(ev', "handle_closed_hedge")
       => LET magic == ev'[1].magic
          IN magic \in DOMAIN grid_states'
                => \A side \in Sides :
                      PrevCount(grid_states'[magic], side)
                         = Cardinality(NonHedgeOfSide(positions', magic, side))]_vars

\* C30, what the code gives: the stored counts are those read at the start of
\* the pass, before any re-hedge of the pass opened a position.
C30_PrevCountsAreThoseRead ==
    [][Ran(ev', "handle_closed_hedge")
       => LET magic == ev'[1].magic
          IN magic \in DOMAIN grid_states'
                => \A side \in Sides :
                      PrevCount(grid_states'[magic], side)
                         = Cardinality(NonHedgeOfSide(positions, magic, side))]_vars

\* ------------------------------------------------------------------ properties, mt5bot.py
\* The requests of a kind for a side in a log of the single-grid variant.
SideEvents(e, kind, side) == {i \in 1..Len(e) : e[i].kind = kind /\ e[i].side = side}

Answered(e, side, codes) == {i \in SideEvents(e, "limit", side) : e[i].retcode \in codes}

\* The step of a side as the grid computes it from the side's open positions.
SideStep(side) ==
    IF Cardinality(SideOf(positions, side)) >= DYNAMIC_POSITIONS_TRIGGER
    THEN DYNAMIC_STEP_PIPS ELSE GRID_STEP_PIPS

\* C24 (mt5bot.py): when step_grid's limit order of a side is rejected with the
\* invalid-price code 10015, the side's next target price is exactly one grid
\* step beyond the rejected price, away from the market (lower for BUY, higher
\* for SELL), and the side's Fibonacci index and last lot are unchanged; on any
\* other rejection the target stays at the rejected price and index and last
\* lot are unchanged.
C24_InvalidPriceSkipsOneLevel ==
    [][Ran(ev', "step_grid")
       => \A side \in Sides :
             /\ \A i \in Answered(ev', side, {"10015"}) :
                   /\ NextPx(single', side)
                         = (IF side = "BUY" THEN ev'[i].price - SideStep(side) * pip_val
                            ELSE ev'[i].price + SideStep(side) * pip_val)
                   /\ FibIndex(single', side) = FibIndex(single, side)
                   /\ LastLot(single', side) = LastLot(single, side)
             /\ \A i \in Answered(ev', side, {"REJECTED"}) :
                   /\ NextPx(single', side) = ev'[i].price
                   /\ FibIndex(single', side) = FibIndex(single, side)
                   /\ LastLot(single', side) = LastLot(single, side)]_vars

\* step_grid has just had a limit order rejected for an invalid price on a side
\* whose index has advanced before, and the target has moved on.
C24_Witness ==
    /\ Ran(ev, "step_grid")
    /\ \E side \in Sides :
          /\ Answered(ev, side, {"10015"}) # {}
          /\ FibIndex(single, side) > 1
          /\ \A i \in Answered(ev, side, {"10015"}) : NextPx(single, side) # ev[i].price

\* C25 (mt5bot.py): step_grid submits at most one limit order per side in a
\* pass (so at most one per side per tick), and at the end of every tick each
\* side has at most MAX_PENDING_GRID_ORDERS_PER_SIDE pending limit orders.
C25_PendingWithinCapSingle ==
    [][/\ Ran(ev', "step_grid")
          => \A side \in Sides :
                /\ Cardinality(SideEvents(ev', "limit", side)) <= 1
                /\ Cardinality(PendingOf(orders', side))
                      <= Cardinality(PendingOf(orders, side)) + 1
       /\ pc' = "check"
          => \A side \in Sides :
                Cardinality(PendingOf(orders', side)) <= MAX_PENDING_GRID_ORDERS_PER_SIDE]_vars

\* A tick has just ended with a side at the cap, and the side's target is a
\* price at which it has no pending order.
C25_Witness ==
    /\ pc = "check"
    /\ Ran(ev, "sync_all_tps")
    /\ \E side \in Sides :
          /\ Cardinality(PendingOf(orders, side)) = MAX_PENDING_GRID_ORDERS_PER_SIDE
          /\ NextPx(single, side) # None
          /\ \A i \in PendingOf(orders, side) : orders[i].price # NextPx(single, side)

\* ------------------------------------------------------------------ properties, the tick
\* The market orders of a log that the venue filled, by basket, side and tag.
FilledMarket(e, magic, side, actions) ==
    {i \in Requests(e, {"market"}, magic) :
        e[i].side = side /\ e[i].action \in actions /\ e[i].retcode = "DONE"}

\* The limit orders of a side that the venue accepted, among the requests of a log.
AcceptedLimits(e, magic, side) ==
    {i \in Limits(e, magic, side) : e[i].retcode = "DONE"}

\* C31: within a run (between two starts of the process), for every basket that
\* stays in the registry and for each side, a step of the program either adds
\* to the side's sequence index exactly the number of limit orders the venue
\* accepted on that side in the step (+1 for each placement, each one computed
\* from the index the one before it left), or sets it to 0 when the side is
\* reset (its re-hedge filled) or the basket is opened anew by a paired hedge;
\* it never decreases to a non-zero value.
C31_IndexStepsByOne ==
    [][\A magic \in DOMAIN grid_states \cap DOMAIN grid_states' :
          \A side \in Sides :
             LET before == SeqIndex(grid_states[magic], side)
                 after == SeqIndex(grid_states'[magic], side)
                 done == AcceptedLimits(ev', magic, side)
             IN \/ /\ after = before + Cardinality(done)
                   /\ \A i \in done : ev'[i].k = before + Cardinality({j \in done : j < i})
                \/ /\ after = 0
                   /\ done = {}
                   /\ \/ FilledMarket(ev', magic, side,
                                      {ACTION_RE_HEDGE_BUY, ACTION_RE_HEDGE_SELL}) # {}
                      \/ FilledMarket(ev', magic, side,
                                      {ACTION_INITIAL_HEDGE_BUY, ACTION_INITIAL_HEDGE_SELL}) # {}]_vars

\* A side has just been reset (its re-hedge filled, its index is 0 again) while
\* two accepted limit orders have brought the other side's index to 2.
C31_Witness ==
    /\ Ran(ev, "handle_closed_hedge")
    /\ \E side \in Sides :
          /\ ReHedges(ev, ev[1].magic, side) # {}
          /\ FilledMarket(ev, ev[1].magic, side, {ACTION_RE_HEDGE_BUY, ACTION_RE_HEDGE_SELL}) # {}
          /\ ev[1].magic \in DOMAIN grid_states
          /\ SeqIndex(grid_states[ev[1].magic], side) = 0
          /\ PendingCount(orders, ev[1].magic, Opposite(side)) = MAX_PENDING_GRID_ORDERS_PER_SIDE
          /\ SeqIndex(grid_states[ev[1].magic], Opposite(side)) = 2

\* The capping rewrites of a log, by basket.
Cappings(e, magic) ==
    {i \in Requests(e, {"modify"}, magic) :
        e[i].action \in {ACTION_CAPPED_BUY_TAG, ACTION_CAPPED_SELL_TAG}}

\* C32: the trigger pass of a tick visits each basket once, and for a basket
\* it submits at most one counter-hedge: the BUY side is checked first, and when
\* the BUY branch is taken (BUY not capped and at the trigger threshold) the one
\* counter-hedge is the SELL order of the BUY side, filled or rejected, and
\* nothing is done for the SELL side of that basket in that tick (no BUY
\* counter-hedge, no SELL position capped), even when the SELL side is at the
\* threshold too.
C32_OneBranchPerTick ==
    [][Ran(ev', "handle_grid_trigger_and_cap")
       => LET magic == ev'[1].magic
              hedges == Hedges(ev', magic, {"DONE", "REJECTED"})
          IN /\ pc = "trigger" /\ magic = Head(todo) /\ todo' = Tail(todo)
             /\ \A i, j \in 1..Len(todo) : todo[i] = todo[j] => i = j
             /\ Cardinality(hedges) <= 1
             /\ AtTrigger(magic, "BUY")
                => /\ \A i \in hedges :
                         ev'[i].side = "SELL" /\ ev'[i].action = ACTION_DYNAMIC_HEDGE_SELL_TAG
                   /\ \A i \in Cappings(ev', magic) :
                         ev'[i].side = "BUY" /\ ev'[i].action = ACTION_CAPPED_BUY_TAG]_vars

\* A trigger pass has just taken the BUY branch of a basket whose SELL side was
\* at the threshold as well: the SELL counter-hedge is the only market order of
\* the basket in the pass, and the SELL positions were left untagged.
C32_Witness ==
    /\ Ran(ev, "handle_grid_trigger_and_cap")
    /\ Cardinality(Hedges(ev, ev[1].magic, {"DONE", "REJECTED"})) = 1
    /\ \A i \in Hedges(ev, ev[1].magic, {"DONE", "REJECTED"}) : ev[i].side = "SELL"
    /\ Cardinality(NonHedgeOfSide(positions, ev[1].magic, "SELL")) >= DYNAMIC_POSITIONS_TRIGGER
    /\ Cardinality(OfSide(positions, ev[1].magic, "BUY")) >= DYNAMIC_POSITIONS_TRIGGER
    /\ \A i \in NonHedgeOfSide(positions, ev[1].magic, "SELL") : ~HasCapped(positions[i])

\* The trigger pass attempted the counter-hedge of a side: the market order of
\* the opposite direction with the counter-hedge tag, filled or rejected.
Attempted(e, magic, side) ==
    \E i \in Hedges(e, magic, {"DONE", "REJECTED"}) : e[i].side = Opposite(side)

\* C33, as stated: in every trigger pass over a basket and for each side
\* independently of the other, the counter-hedge of the side is attempted if
\* and only if the side is not capped and holds at least
\* DYNAMIC_POSITIONS_TRIGGER non-hedge positions.
C33_EachSideIndependently ==
    [][Ran(ev', "handle_grid_trigger_and_cap")
       => \A side \in Sides :
             Attempted(ev', ev'[1].magic, side)
             <=> /\ ~CappedSide(grid_states[ev'[1].magic], side)
                 /\ Cardinality(NonHedgeOfSide(positions, ev'[1].magic, side))
                       >= DYNAMIC_POSITIONS_TRIGGER]_vars

\* C33, amended: in every trigger pass over a basket, the counter-hedge of the
\* BUY side is attempted if and only if the BUY side is not capped, holds at
\* least DYNAMIC_POSITIONS_TRIGGER positions (counter-hedges counted) and at
\* least one of them is not a counter-hedge; the counter-hedge of the SELL side
\* is attempted if and only if the BUY check failed (BUY capped or below the
\* threshold) and the same holds of the SELL side.
C33_BuyFirstThenSell ==
    [][Ran(ev', "handle_grid_trigger_and_cap")
       => LET magic == ev'[1].magic
          IN /\ Attempted(ev', magic, "BUY")
                <=> /\ AtTrigger(magic, "BUY")
                    /\ NonHedgeOfSide(positions, magic, "BUY") # {}
             /\ Attempted(ev', magic, "SELL")
                <=> /\ ~AtTrigger(magic, "BUY")
                    /\ AtTrigger(magic, "SELL")
                    /\ NonHedgeOfSide(positions, magic, "SELL") # {}]_vars

\* A trigger pass has just attempted the counter-hedge of the SELL side (a BUY
\* market order) of a basket whose BUY side was below the threshold.
C33_Witness ==
    /\ Ran(ev, "handle_grid_trigger_and_cap")
    /\ Attempted(ev, ev[1].magic, "SELL")
    /\ Cardinality(NonHedgeOfSide(positions, ev[1].magic, "SELL")) >= DYNAMIC_POSITIONS_TRIGGER
    /\ Cardinality(NonHedgeOfSide(positions, ev[1].magic, "BUY")) < DYNAMIC_POSITIONS_TRIGGER

\* C34: within every tick the passes run in this order.  The trigger pass runs
\* first, over every basket of the registry at the start of the tick.  The
\* per-basket loop then runs over every basket of the registry as the trigger
\* pass left it (a basket it spawned included), and for each basket in turn:
\* handle_closed_hedge, then step_grid, then sync_all_tps of the same basket,
\* unless handle_closed_hedge removed the basket, which is then neither
\* populated nor synchronized.  hedge_if_empty runs last, when every basket
\* has been through the loop.  (A tick that an exception ends is cut short.)
C34_PassOrder ==
    [][/\ (pc = "check" /\ pc' = "trigger") => todo' = SortedSeq(DOMAIN grid_states)
       /\ Ran(ev', "handle_grid_trigger_and_cap")
          => /\ pc = "trigger" /\ pc' = "trigger"
             /\ ev'[1].magic = Head(todo) /\ todo' = Tail(todo)
       /\ (pc = "trigger" /\ pc' = "closed")
          => todo = <<>> /\ todo' = SortedSeq(DOMAIN grid_states')
       /\ Ran(ev', "handle_closed_hedge")
          => /\ pc = "closed" /\ ev'[1].magic = Head(todo)
             /\ ev = <<>> \/ Ran(ev, "sync_all_tps") \/ Ran(ev, "handle_closed_hedge")
             /\ IF ev'[1].magic \in DOMAIN grid_states'
                THEN pc' = "step" /\ todo' = todo
                ELSE pc' = "closed" /\ todo' = Tail(todo)
       /\ Ran(ev', "step_grid")
          => /\ Ran(ev, "handle_closed_hedge") /\ ev'[1].magic = ev[1].magic
             /\ ev'[1].magic = Head(todo) /\ ev'[1].magic \in DOMAIN grid_states
             /\ pc' = "sync" /\ todo' = todo
       /\ Ran(ev', "sync_all_tps")
          => /\ Ran(ev, "step_grid") /\ ev'[1].magic = ev[1].magic
             /\ ev'[1].magic = Head(todo)
             /\ pc' = "closed" /\ todo' = Tail(todo)
       /\ Ran(ev', "hedge_if_empty")
          => pc = "closed" /\ todo = <<>> /\ pc' = "check"
       /\ (pc \in {"closed", "step", "sync"} /\ pc' # "exited")
          => \/ Ran(ev', "handle_closed_hedge") \/ Ran(ev', "step_grid")
             \/ Ran(ev', "sync_all_tps") \/ Ran(ev', "hedge_if_empty")]_vars

\* The per-basket loop has just populated, from index 0, a basket that the
\* trigger pass of the same tick spawned next to the capped one.
C34_Witness ==
    /\ Ran(ev, "step_grid")
    /\ ev[1].magic = base_magic_number + 1
    /\ FullyCapped(grid_states[base_magic_number])
    /\ \E side \in Sides : \E i \in AcceptedLimits(ev, ev[1].magic, side) : ev[i].k = 0
    /\ \A i \in 1..Len(positions) :
          positions[i].magic = ev[1].magic
          => positions[i].action \in {ACTION_INITIAL_HEDGE_BUY, ACTION_INITIAL_HEDGE_SELL}

\* handle_closed_hedge has just removed an emptied basket from the registry
\* and the loop goes on without populating it.
C34_RemovedBasketSkipped ==
    /\ Ran(ev, "handle_closed_hedge")
    /\ ev[1].magic \notin DOMAIN grid_states
    /\ pc = "closed"

\* C35: at the end of every step_grid pass and for each side of the basket that
\* is not capped and has an anchor, when the global position gate is open, the
\* session is active and the venue accepted every limit order of the side in
\* the pass, the side has exactly MAX_PENDING_GRID_ORDERS_PER_SIDE pending limit
\* orders, unless the pass stopped at the end of the lot sequence: the queue is
\* refilled to the cap within the one pass.
C35_RefilledToCap ==
    [][Ran(ev', "step_grid")
       => LET magic == ev'[1].magic
          IN \A side \in Sides :
                (/\ SideOpen(grid_states[magic], side)
                 /\ GateOpen(positions)
                 /\ (ENABLE_TRADING_HOURS => in_session)
                 /\ \A i \in Limits(ev', magic, side) : ev'[i].retcode = "DONE")
                => \/ PendingCount(orders', magic, side) = MAX_PENDING_GRID_ORDERS_PER_SIDE
                   \/ /\ SeqIndex(grid_states'[magic], side) >= Len(GRID_LOT_SEQUENCE)
                      /\ PendingCount(orders', magic, side) < MAX_PENDING_GRID_ORDERS_PER_SIDE]_vars

\* step_grid has just placed two limit orders on a side in one pass: the side
\* is at the cap and the lot sequence has an entry left.
C35_Witness ==
    /\ Ran(ev, "step_grid")
    /\ GateOpen(positions) /\ in_session
    /\ \E side \in Sides :
          /\ SideOpen(grid_states[ev[1].magic], side)
          /\ Cardinality(AcceptedLimits(ev, ev[1].magic, side)) = MAX_PENDING_GRID_ORDERS_PER_SIDE
          /\ Limits(ev, ev[1].magic, side) = AcceptedLimits(ev, ev[1].magic, side)
          /\ PendingCount(orders, ev[1].magic, side) = MAX_PENDING_GRID_ORDERS_PER_SIDE
          /\ SeqIndex(grid_states[ev[1].magic], side) < Len(GRID_LOT_SEQUENCE)

\* The handlers that call hedge_if_empty().
CallsBootstrap(e) ==
    \/ Ran(e, "hedge_if_empty") \/ Ran(e, "reconstruct_state_on_restart")
    \/ Ran(e, "profit_target")

\* The initial-hedge market orders of a log, whatever the basket.
InitialHedges(e) ==
    {i \in 1..Len(e) : /\ e[i].kind = "market"
                       /\ e[i].action \in {ACTION_INITIAL_HEDGE_BUY, ACTION_INITIAL_HEDGE_SELL}}

\* The positions the venue closed on request in a log.
ClosedOnRequest(e) == {i \in 1..Len(e) : e[i].kind = "close" /\ e[i].retcode = "DONE"}

\* C36: hedge_if_empty places its paired hedge only when the registry is empty
\* and the venue reports no open position (for the call that follows a
\* profit-target flatten: the registry has been cleared and every position was
\* closed); it places nothing while a basket is registered or a position is
\* open.  The pair is a BUY and then a SELL market order under the base magic
\* number, and when both fill the registry holds exactly one basket: the base
\* one, with both sequence indices 0, both capped flags false, previous counts
\* 1 and 1, and the two fill prices as anchors.
C36_BootstrapOnlyWhenEmpty ==
    [][CallsBootstrap(ev')
       => LET hedges == InitialHedges(ev')
          IN /\ hedges # {}
                => /\ \/ grid_states = Empty /\ positions = <<>>
                      \/ /\ Ran(ev', "profit_target")
                         /\ Cardinality(ClosedOnRequest(ev')) = Len(positions)
                   /\ Cardinality(hedges) = 2
                   /\ \A i \in hedges :
                         /\ ev'[i].magic = base_magic_number
                         /\ (\A j \in hedges : i <= j)
                            <=> ev'[i].action = ACTION_INITIAL_HEDGE_BUY
                         /\ ev'[i].side = (IF ev'[i].action = ACTION_INITIAL_HEDGE_BUY
                                           THEN "BUY" ELSE "SELL")
                   /\ (\A i \in hedges : ev'[i].retcode = "DONE")
                      => /\ DOMAIN grid_states' = {base_magic_number}
                         /\ \A i \in hedges :
                               Anchor(grid_states'[base_magic_number], ev'[i].side) = ev'[i].price
                         /\ \A side \in Sides :
                               /\ SeqIndex(grid_states'[base_magic_number], side) = 0
                               /\ ~CappedSide(grid_states'[base_magic_number], side)
                               /\ PrevCount(grid_states'[base_magic_number], side) = 1
                         /\ Len(positions') = 2
             /\ (hedges = {} /\ Ran(ev', "hedge_if_empty"))
                => grid_states' = grid_states /\ positions' = positions]_vars

\* The bootstrap check at the end of a tick has just opened the base basket:
\* both legs filled and the registry holds that one basket.
C36_Witness ==
    /\ Ran(ev, "hedge_if_empty")
    /\ Cardinality(InitialHedges(ev)) = 2
    /\ \A i \in InitialHedges(ev) : ev[i].retcode = "DONE"
    /\ DOMAIN grid_states = {base_magic_number}
    /\ Len(positions) = 2

\* A tick has just ended: hedge_if_empty() returned, or the profit-target reset
\* ended the iteration with `continue`.
TickEnded ==
    pc = "check" /\ (Ran(ev, "hedge_if_empty") \/ Ran(ev, "profit_target"))

\* C37: at the end of every tick, every open position at the venue carries the
\* magic number of a basket that is in the registry.
C37_EveryPositionManaged ==
    TickEnded => \A i \in 1..Len(positions) : positions[i].magic \in DOMAIN grid_states

\* C37, what the rejections leave: an iteration that the profit-target reset
\* ends leaves a position without a basket only when the venue rejected one of
\* its requests (a close, or one leg of the paired hedge).
C37_UnmanagedOnlyAfterRejection ==
    [][(TickEnded' /\ Ran(ev', "profit_target")
        /\ \E i \in 1..Len(positions') : positions'[i].magic \notin DOMAIN grid_states')
       => \E i \in 1..Len(ev') : ev'[i].retcode # "DONE"]_vars

\* C38: a basket whose capped flags are both set in memory is rebuilt capped on
\* both sides when the process is restarted against the venue as it is:
\* reconstruct_state_on_restart, run on the books of any state in which the
\* process can stop, marks every fully capped basket it rebuilds as capped on
\* both sides.
C38_CappedAfterRestart ==
    pc = "check"
    => \A magic \in DOMAIN grid_states \cap DOMAIN Rebuilt :
          FullyCapped(grid_states[magic]) => FullyCapped(Rebuilt[magic])

\* C38, the consequence: a basket that holds a position tagged as capped (it
\* was frozen in some run) is sent no limit order and no re-hedge.
C38_FrozenBasketGetsNoOrder ==
    [][\A magic \in DOMAIN grid_states :
          (\E i \in OfMagic(positions, magic) : HasCapped(positions[i]))
          => \A i \in Requests(ev', {"limit", "market"}, magic) :
                ev'[i].action \notin BasketOrders]_vars

\* C39: in every reachable state the venue holds at most MAX_POSITIONS open
\* positions of the instrument, all baskets together.
C39_PositionsWithinLimit == Len(positions) <= MAX_POSITIONS

\* C39, what the gate does bound: step_grid sends no limit order when the
\* venue already holds MAX_POSITIONS positions; the position count itself grows
\* past the limit only by fills of orders placed earlier and by market orders.
C39_OverLimitByFillOrMarketOrder ==
    [][(Len(positions') > MAX_POSITIONS /\ Len(positions') > Len(positions))
       => \/ ev' = <<>> /\ Len(orders') < Len(orders)
          \/ \E i \in 1..Len(ev') : ev'[i].kind = "market" /\ ev'[i].retcode = "DONE"]_vars

\* A run of the single-grid variant with a half-filled paired hedge, at ask
\* 100.  Both initial positions close; when hedge_if_empty sends the new pair
\* the venue fills the BUY leg and rejects the SELL leg.  Afterwards the venue
\* is free.
PlanHalfHedge ==
    <<Act("exit", base_magic_number, "BUY", ACTION_INITIAL_HEDGE_BUY, 100),
      Act("exit", base_magic_number, "SELL", ACTION_INITIAL_HEDGE_SELL, 100 - Spread),
      Act("market", base_magic_number, "SELL", ACTION_INITIAL_HEDGE_SELL, 100 - Spread)>>

InitSingleHalf ==
    /\ positions = <<>>
    /\ orders = <<>>
    /\ grid_states = Empty
    /\ next_magic_number = base_magic_number + 1
    /\ initial_equity \in Equities
    /\ pc = "start"
    /\ todo = <<>>
    /\ ev = <<>>
    /\ venue_events = 0
    /\ ask = 100
    /\ in_session = TRUE
    /\ plan = PlanHalfHedge
    /\ single = ModuleGlobals

SpecSingleHalf == InitSingleHalf /\ [][SingleNext]_vars

\* ------------------------------------------------------------------ properties, mt5bot.py: just_hedged
\* The market orders of a log that the venue filled.
FilledOrders(e) == {i \in 1..Len(e) : e[i].kind = "market" /\ e[i].retcode = "DONE"}

\* The limit orders of a log, accepted or not.
LimitRequests(e) == {i \in 1..Len(e) : e[i].kind = "limit"}

\* C40: in the single-grid variant, an iteration of the loop in which a hedge
\* or re-hedge market order was filled places no grid limit order.  A re-hedge
\* filled in handle_closed_hedge sets just_hedged, which hedge_if_empty leaves
\* set; at the step_grid decision of the iteration, with just_hedged set or a
\* market order just filled by hedge_if_empty, no limit order is submitted and
\* the pending orders are unchanged; and just_hedged is false after the
\* decision, so it is false when the following iteration begins.
C40_NoLimitOrderAfterHedge ==
    [][/\ (Ran(ev', "handle_closed_hedge") /\ FilledOrders(ev') # {})
          => single'.just_hedged /\ pc' = "hedge"
       /\ (pc = "hedge" /\ single.just_hedged) => (pc' = "step" => single'.just_hedged)
       /\ (pc = "step" /\ pc' = "sync"
           /\ (single.just_hedged \/ (Ran(ev, "hedge_if_empty") /\ FilledOrders(ev) # {})))
          => LimitRequests(ev') = {} /\ orders' = orders
       /\ (pc = "step" /\ pc' = "sync") => ~single'.just_hedged]_vars

\* C40, the part that holds: just_hedged is set by a filled re-hedge and by a
\* paired hedge of which both legs filled; a step_grid decision that finds it
\* set submits nothing and clears it, and one that finds it clear leaves it clear.
C40_SkippedWhenFlagged ==
    [][/\ (Ran(ev', "handle_closed_hedge") /\ FilledOrders(ev') # {})
          => single'.just_hedged /\ pc' = "hedge"
       /\ (Ran(ev', "hedge_if_empty") /\ Cardinality(FilledOrders(ev')) = 2)
          => single'.just_hedged
       /\ (pc = "hedge" /\ single.just_hedged) => (pc' = "step" => single'.just_hedged)
       /\ (pc = "step" /\ pc' = "sync" /\ single.just_hedged)
          => LimitRequests(ev') = {} /\ orders' = orders /\ positions' = positions
       /\ (pc = "step" /\ pc' = "sync") => ~single'.just_hedged]_vars

====
